---- MODULE Spec2Model ----
(***************************************************************************)
(* Model of the vcluster cluster operation engine: the plan engine         *)
(* (VClusterOpEngine.run), the operation lifecycle (prepare, cert loading, *)
(* execute, finalize), the per-host fan-out of one operation, and the      *)
(* result handling of the upload-config, sandbox and check-subcluster      *)
(* operations.                                                             *)
(*                                                                         *)
(* Hosts are the integers 1..NumHosts (their order is the lexicographic    *)
(* order of the host addresses).  An error value is a sequence of frames;  *)
(* the empty sequence is the nil error.                                    *)
(***************************************************************************)
EXTENDS Integers, Sequences, FiniteSets, TLC

\* ------------------------------------------------------------------ bounds
NumHosts == 3
MaxOps == 2

Hosts == 1..NumHosts

\* ------------------------------------------------------- program constants
SuccessCode == 200
UnauthorizedCode == 401
InternalErrorCode == 500

VARIABLES
    plan,       \* VClusterOpEngine.instructions: the ordered operations
    certs,      \* VClusterOpEngine.certs: which of key, cert, caCert are non-empty
    pc,         \* position of run(): start, prepare, loadCerts, execute, fanout, finalize, done
    idx,        \* index of the operation the loop of run() is at
    ctx,        \* the execution context of the current run
    ops,        \* per operation: the fields of opBase (skipExecute, hosts, request collection)
    results,    \* the result collection of the operation being executed
    calls,      \* the phase calls made by run(), in order, each with the error it returned
    runErr,     \* the error returned by run()
    pending,    \* dispatcher: hosts of the current fan-out not yet handed to a worker
    inflight,   \* dispatcher: hosts whose call is in flight
    poolSize,   \* dispatcher: number of worker slots
    dispatched, \* every <<operation index, host>> a request was sent for
    prLog,      \* what processResult saw when the operation being executed called it
    fnIn,       \* input of the function under test (function-level specifications)
    fnOut,      \* its output
    fileContent, \* the config file content shared by download-config and upload-config
    bodies,     \* per operation: the request body registered for each host
    log,        \* the entries written to the log
    cmd,        \* what the command that runs the plan has returned to its caller
    polls       \* polling rounds completed by the operation being executed

engineVars == <<plan, certs, pc, idx, ctx, ops, results, calls, runErr>>
dispatchVars == <<pending, inflight, poolSize, dispatched, prLog>>
fnVars == <<fnIn, fnOut>>
dataVars == <<fileContent, bodies, log, cmd, polls>>
vars == <<plan, certs, pc, idx, ctx, ops, results, calls, runErr,
          pending, inflight, poolSize, dispatched, prLog, fnIn, fnOut,
          fileContent, bodies, log, cmd, polls>>

\* ------------------------------------------------------------------ errors
NoErr == <<>>
Frame(tag, a, b) == [tag |-> tag, a |-> a, b |-> b]
\* errors.New / fmt.Errorf without %w
NewErr(tag, a, b) == <<Frame(tag, a, b)>>
\* fmt.Errorf("... %w", inner): a new error whose chain continues with inner
Errorf(tag, a, b, inner) == <<Frame(tag, a, b)>> \o inner
\* errors.Unwrap
Unwrap(e) == IF e = NoErr THEN NoErr ELSE Tail(e)
\* errors.Join: nil when every argument is nil, else a new error holding the non-nil ones
Join(e1, e2) ==
    IF e1 = NoErr /\ e2 = NoErr THEN NoErr
    ELSE <<Frame("join", IF e1 = NoErr THEN 0 ELSE 1, IF e2 = NoErr THEN 0 ELSE 1)>> \o e1 \o e2

\* ------------------------------------------------------------------- texts
\* a text (file content, request body, log entry) is a sequence of tokens
NoText == <<>>
\* no request body registered
NoBodies == [h \in {} |-> NoText]
\* the command has not returned to its caller
NotReturned == [returned |-> FALSE, vdbNil |-> TRUE, err |-> NoErr, configWritten |-> FALSE]

\* ------------------------------------------------------------ host results
\* HostHTTPResult{status, statusCode, host, content, err}
\* content is abstracted to what the operations look at after parsing it.
ContentKinds == {"map_with_destination", "map", "not_json", "sc_match", "sc_wrong_name",
                 "sc_wrong_secondary", "sc_wrong_ctl"}

\* the adapter's classification of a response (2xx, 401, 5xx, other, transport error)
MakeResult(host, code, content) ==
    [host |-> host,
     statusCode |-> code,
     status |-> IF code = 0 THEN "EXCEPTION"
                ELSE IF code >= 200 /\ code < 300 THEN "SUCCESS" ELSE "FAILURE",
     content |-> content,
     err |-> IF code >= 200 /\ code < 300 THEN NoErr ELSE NewErr("host", host, code)]

isUnauthorizedRequest(r) == r.statusCode = UnauthorizedCode
isInternalError(r) == r.statusCode = InternalErrorCode
isPassing(r) == r.err = NoErr
isFailing(r) == r.status = "FAILURE"
isException(r) == r.status = "EXCEPTION"
isHTTPRunning(r) == isPassing(r) \/ isUnauthorizedRequest(r) \/ isInternalError(r)

\* ------------------------------------------------------------ small helpers
Range(s) == {s[i] : i \in 1..Len(s)}
Last(s) == s[Len(s)]

\* util.SliceDiff(m, n): the elements of m that are not in n, in the order of m
RECURSIVE SliceDiff(_, _)
SliceDiff(m, n) ==
    IF m = <<>> THEN <<>>
    ELSE IF Head(m) \in Range(n) THEN SliceDiff(Tail(m), n)
         ELSE <<Head(m)>> \o SliceDiff(Tail(m), n)

\* all orders in which the keys of a map can be iterated (Go map iteration order)
Orders(S) == {o \in [1..Cardinality(S) -> S] : \A i, j \in 1..Cardinality(S) : i # j => o[i] # o[j]}

RECURSIVE SetToSeq(_)
\* the hosts of S in ascending order
SetToSeq(S) ==
    IF S = {} THEN <<>>
    ELSE LET m == CHOOSE x \in S : \A y \in S : x <= y
         IN <<m>> \o SetToSeq(S \ {m})

\* ------------------------------------------------------ operations of a plan
\* One operation of a plan.  kind "stub" stands for any operation behind the
\* clusterOp interface: its prepare and finalize outcomes are chosen when they
\* are called, and what it publishes into the context is part of its description.
\*   hosts      opBase.hosts as given to the constructor
\*   sourceNil  NMAUploadConfigOp.sourceConfigHost == nil
\*   source     NMAUploadConfigOp.sourceConfigHost
\*   vdbHosts   keys of NMAUploadConfigOp.vdb.HostNodeMap ({} also when vdb is nil)
\*   publish    what the finalize of a stub publishes into the context
NoPublish == [any |-> FALSE, hostsWithLatestCatalog |-> <<>>, nmaVDBHosts |-> {},
              upHosts |-> <<>>, sandboxingHosts |-> <<>>]
StubOp(hosts, publish) ==
    [kind |-> "stub", hosts |-> hosts, sourceNil |-> TRUE, source |-> <<>>,
     vdbHosts |-> {}, publish |-> publish, encryptSpread |-> FALSE, keyType |-> "",
     timeout |-> 0]
UploadOp(sourceNil, source, destHosts, vdbHosts) ==
    [kind |-> "upload", hosts |-> destHosts, sourceNil |-> sourceNil, source |-> source,
     vdbHosts |-> vdbHosts, publish |-> NoPublish, encryptSpread |-> FALSE, keyType |-> "",
     timeout |-> 0]
SandboxOp ==
    [kind |-> "sandbox", hosts |-> <<>>, sourceNil |-> TRUE, source |-> <<>>,
     vdbHosts |-> {}, publish |-> NoPublish, encryptSpread |-> FALSE, keyType |-> "",
     timeout |-> 0]
CheckSubclusterOp ==
    [kind |-> "checksc", hosts |-> <<>>, sourceNil |-> TRUE, source |-> <<>>,
     vdbHosts |-> {}, publish |-> NoPublish, encryptSpread |-> FALSE, keyType |-> "",
     timeout |-> 0]
\* poll-node-state for the given hosts with a timeout (in polling intervals;
\* 0 or less: wait forever)
PollNodeStateOp(hosts, timeout) ==
    [StubOp(hosts, NoPublish) EXCEPT !.kind = "pollnode", !.timeout = timeout]
\* the operations whose execute repeats its requests until a condition holds
PollKinds == {"pollnode"}
\* upload-config in encryptSpread mode
UploadOpEncrypt(sourceNil, source, destHosts, vdbHosts) ==
    [UploadOp(sourceNil, source, destHosts, vdbHosts) EXCEPT !.encryptSpread = TRUE]
\* download-config from the given hosts
DownloadOp(hosts) == [StubOp(hosts, NoPublish) EXCEPT !.kind = "download"]
\* spread-security with the given key type; its hosts are set at runtime
SpreadSecurityOp(keyType) ==
    [StubOp(<<>>, NoPublish) EXCEPT !.kind = "spread", !.keyType = keyType]

\* the catalog-editor read sent to hosts
ReadCatalogEditorOp(hosts) == [StubOp(hosts, NoPublish) EXCEPT !.kind = "readcatalog"]

\* makeOpEngineExecContext: a fresh context, nothing published yet
EmptyCtx == [hostsWithLatestCatalog |-> <<>>, nmaVDBHosts |-> {},
             upHosts |-> <<>>, sandboxingHosts |-> <<>>]

\* the fields of opBase before prepare has run
FreshOpState == [skipExecute |-> FALSE, hosts |-> <<>>, reqs |-> [h \in {} |-> FALSE]]

\* a result collection without entries
NoResults == [h \in {} |-> 0]

\* what a prepare leaves behind: its error, skipExecute, op.hosts, the hosts of
\* the registered request collection, and whether dispatcher.setup was called
PrepOut(err, skip, hosts, reqHosts, setup) ==
    [err |-> err, skip |-> skip, hosts |-> hosts, reqHosts |-> reqHosts, setup |-> setup]

\* updateCatalogPathMapFromCatalogEditor: every host needs a node in the catalog
\* image published by the catalog-editor read; emptyFails: whether an empty host
\* list is reported as an error
updateCatalogPathMapFromCatalogEditor(hosts, nmaVDBHosts, emptyFails) ==
    IF hosts = <<>> /\ emptyFails THEN NewErr("no host with highest catalog version", 0, 0)
    ELSE IF \E h \in Range(hosts) : h \notin nmaVDBHosts
         THEN NewErr("fail to get catalog path from host",
                     CHOOSE i \in 1..Len(hosts) :
                         /\ hosts[i] \notin nmaVDBHosts
                         /\ \A j \in 1..(i-1) : hosts[j] \in nmaVDBHosts, 0)
         ELSE NoErr

\* NMAUploadConfigOp.prepare from the point where op.hosts is known and the
\* catalog paths come from the catalog editor
UploadFromCatalogEditor(hosts, c, emptyFails) ==
    LET err == updateCatalogPathMapFromCatalogEditor(hosts, c.nmaVDBHosts, emptyFails)
    IN IF err # NoErr
       THEN PrepOut(Errorf("failed to get catalog paths from catalog editor", 0, 0, err),
                    FALSE, hosts, {}, FALSE)
       ELSE PrepOut(NoErr, FALSE, hosts, Range(hosts), TRUE)

\* an upload-config prepare that uploads to every destination host
NMAUploadConfigPrepareNoDiff(op, c, emptyFails) ==
    IF op.vdbHosts = {}
    THEN IF op.sourceNil /\ Len(c.hostsWithLatestCatalog) = 0
         THEN PrepOut(NewErr("could not find at least one host with the latest catalog", 0, 0),
                      FALSE, <<>>, {}, FALSE)
         ELSE IF Len(op.hosts) = 0 THEN PrepOut(NoErr, TRUE, op.hosts, {}, FALSE)
              ELSE UploadFromCatalogEditor(op.hosts, c, emptyFails)
    ELSE PrepOut(NoErr, FALSE, op.hosts, Range(op.hosts), TRUE)

\* NMAUploadConfigOp.prepare
NMAUploadConfigPrepare(op, c, emptyFails) ==
    IF op.vdbHosts = {}
    THEN IF op.sourceNil
         THEN IF Len(c.hostsWithLatestCatalog) = 0
              THEN PrepOut(NewErr("could not find at least one host with the latest catalog", 0, 0),
                           FALSE, <<>>, {}, FALSE)
              ELSE LET hostsNeedCatalogSync == SliceDiff(op.hosts, c.hostsWithLatestCatalog)
                   IN IF Len(hostsNeedCatalogSync) = 0
                      THEN PrepOut(NoErr, TRUE, hostsNeedCatalogSync, {}, FALSE)
                      ELSE UploadFromCatalogEditor(hostsNeedCatalogSync, c, emptyFails)
         ELSE UploadFromCatalogEditor(SliceDiff(op.hosts, op.source), c, emptyFails)
    ELSE PrepOut(NoErr, FALSE, op.hosts, Range(op.hosts), TRUE)

\* a sandbox prepare that sends the request to every up host
SandboxPrepareUpHosts(op, c) ==
    IF Len(c.upHosts) = 0
    THEN PrepOut(NewErr("Cannot find any up hosts in OpEngineExecContext", 0, 0),
                 FALSE, <<>>, {}, FALSE)
    ELSE PrepOut(NoErr, FALSE, <<>>, Range(c.upHosts), TRUE)

\* httpsSandboxingOp.prepare
SandboxPrepare(op, c) ==
    IF Len(c.sandboxingHosts) = 0
    THEN PrepOut(NewErr("Cannot find any up hosts in OpEngineExecContext", 0, 0),
                 FALSE, <<>>, {}, FALSE)
    ELSE PrepOut(NoErr, FALSE, <<>>, Range(c.sandboxingHosts), TRUE)

\* httpsCheckSubclusterOp.prepare
CheckSubclusterPrepare(op, c) ==
    IF Len(c.upHosts) = 0
    THEN PrepOut(NewErr("Cannot find any up hosts in OpEngineExecContext", 0, 0),
                 FALSE, <<>>, {}, FALSE)
    ELSE PrepOut(NoErr, FALSE, <<>>, Range(c.upHosts), TRUE)

\* prepare of an operation behind the clusterOp interface
StubOutcomes == {"ok", "err", "skip"}
StubPrepare(op, outcome) ==
    IF outcome = "err" THEN PrepOut(NewErr("prepare", 0, 0), FALSE, op.hosts, {}, FALSE)
    ELSE IF outcome = "skip" THEN PrepOut(NoErr, TRUE, op.hosts, {}, FALSE)
    ELSE PrepOut(NoErr, FALSE, op.hosts, Range(op.hosts), TRUE)

\* NMADownloadConfigOp.Prepare: requests to the hosts given to the constructor
NMADownloadConfigPrepare(op, c) == PrepOut(NoErr, FALSE, op.hosts, Range(op.hosts), TRUE)

spreadKeyTypeVertica == "vertica"

\* what the random sources give a spread-security prepare: the key id of
\* math/rand, the key of crypto/rand, and whether crypto/rand succeeded
SpreadRandoms ==
    {[ok |-> TRUE, key |-> "key_a", keyID |-> "id_a"],
     [ok |-> TRUE, key |-> "key_b", keyID |-> "id_b"],
     [ok |-> FALSE, key |-> "", keyID |-> "id_a"]}

\* nmaSpreadSecurityOp.generateSecurityDetails: its error, and the details text
generateSecurityDetailsErr(keyType, rnd) ==
    IF keyType = spreadKeyTypeVertica
    THEN IF rnd.ok THEN NoErr
         ELSE Errorf("failed to generate random bytes for spread", 0, 0, NewErr("crypto/rand", 0, 0))
    ELSE NewErr("unsupported spread key type", 0, 0)
generateSecurityDetails(keyType, rnd) == <<rnd.keyID, rnd.key>>

\* a spread-security prepare that generates a key whatever the key type is
nmaSpreadSecurityPrepareAnyKeyType(op, c, emptyFails, rnd) ==
    LET hosts == c.hostsWithLatestCatalog
        pathErr == updateCatalogPathMapFromCatalogEditor(hosts, c.nmaVDBHosts, emptyFails)
    IN IF pathErr # NoErr
       THEN PrepOut(Errorf("failed to get catalog paths from catalog editor", 0, 0, pathErr),
                    FALSE, hosts, {}, FALSE)
       ELSE IF Len(hosts) = 0 THEN PrepOut(NewErr("no hosts specified", 0, 0), FALSE, hosts, {}, FALSE)
       ELSE PrepOut(NoErr, FALSE, hosts, Range(hosts), TRUE)

\* nmaSpreadSecurityOp.prepare: setRuntimeParms, setupRequestBody, dispatcher
\* setup, setupClusterHTTPRequest
nmaSpreadSecurityPrepare(op, c, emptyFails, rnd) ==
    LET hosts == c.hostsWithLatestCatalog
        pathErr == updateCatalogPathMapFromCatalogEditor(hosts, c.nmaVDBHosts, emptyFails)
        keyErr == generateSecurityDetailsErr(op.keyType, rnd)
    IN IF pathErr # NoErr
       THEN PrepOut(Errorf("failed to get catalog paths from catalog editor", 0, 0, pathErr),
                    FALSE, hosts, {}, FALSE)
       ELSE IF Len(hosts) = 0 THEN PrepOut(NewErr("no hosts specified", 0, 0), FALSE, hosts, {}, FALSE)
       ELSE IF keyErr # NoErr THEN PrepOut(keyErr, FALSE, hosts, {}, FALSE)
       ELSE PrepOut(NoErr, FALSE, hosts, Range(hosts), TRUE)

\* one log entry: the message, the host it is about (0: none) and the logged text
LogEntry(msg, host, data) == [msg |-> msg, host |-> host, data |-> data]

\* the spread key payload NMAUploadConfigOp.setupRequestBody appends to the file
spreadKeyPayload == "y17b: 26169b33c812e9d1db67ec1dd3046a23219aa1e32840a105322de2dd06752279"

\* the body of one request: uploadConfigRequestData / nmaSpreadSecurityPayload
RequestBody(host, content) == [catalogPath |-> host, content |-> content]

\* an upload-config setupRequestBody that builds the bodies without the file content
setupRequestBodyNoContent(op, hosts, content) == [h \in Range(hosts) |-> RequestBody(h, NoText)]

\* NMAUploadConfigOp.setupRequestBody: *op.fileContent after it, the bodies it
\* builds, and what it logs
setupRequestBodyContent(op, content) ==
    IF op.encryptSpread THEN content \o <<"# VSpreadKey:", spreadKeyPayload>> ELSE content
setupRequestBody(op, hosts, content) ==
    [h \in Range(hosts) |-> RequestBody(h, setupRequestBodyContent(op, content))]
setupRequestBodyLog(op, content) ==
    IF op.encryptSpread
    THEN {LogEntry("modified spread conf", 0, setupRequestBodyContent(op, content))}
    ELSE {}

\* nmaSpreadSecurityOp.setupRequestBody: the bodies it builds and what it logs
spreadSetupRequestBody(op, hosts, rnd) ==
    [h \in Range(hosts) |-> RequestBody(h, generateSecurityDetails(op.keyType, rnd))]
spreadSetupRequestBodyLog(op, hosts, rnd) ==
    UNION {{LogEntry("payload setup", h, generateSecurityDetails(op.keyType, rnd)),
            LogEntry("mashaled payload", h,
                     <<"catalog_path">> \o generateSecurityDetails(op.keyType, rnd))} :
              h \in Range(hosts)}

\* the effects of a prepare on the request bodies of the operation, on the
\* shared file content and on the log; out is what the prepare returned
PrepareBodies(op, out, content, rnd) ==
    IF ~out.setup THEN NoBodies
    ELSE IF op.kind = "upload" THEN setupRequestBody(op, out.hosts, content)
    ELSE IF op.kind = "spread" THEN spreadSetupRequestBody(op, out.hosts, rnd)
    ELSE NoBodies
PrepareFileContent(op, out, content) ==
    IF out.setup /\ op.kind = "upload" THEN setupRequestBodyContent(op, content) ELSE content
PrepareLog(op, out, content, rnd) ==
    IF ~out.setup THEN {}
    ELSE IF op.kind = "upload" THEN setupRequestBodyLog(op, content)
    ELSE IF op.kind = "spread" THEN spreadSetupRequestBodyLog(op, out.hosts, rnd)
    ELSE {}

\* op.prepare(&execContext), dispatched on the concrete type of the operation
OpPrepare(op, c, outcome, emptyFails, rnd) ==
    IF op.kind = "upload" THEN NMAUploadConfigPrepare(op, c, emptyFails)
    ELSE IF op.kind = "download" THEN NMADownloadConfigPrepare(op, c)
    ELSE IF op.kind \in {"pollnode", "readcatalog"}
         THEN PrepOut(NoErr, FALSE, op.hosts, Range(op.hosts), TRUE)
    ELSE IF op.kind = "spread" THEN nmaSpreadSecurityPrepare(op, c, emptyFails, rnd)
    ELSE IF op.kind = "sandbox" THEN SandboxPrepare(op, c)
    ELSE IF op.kind = "checksc" THEN CheckSubclusterPrepare(op, c)
    ELSE StubPrepare(op, outcome)

\* --------------------------------------------------------- result handling
\* what processResult returns, and how many rc it examined before returning
ProcOut(err, examined) == [err |-> err, examined |-> examined]

\* opBase.parseAndCheckMapResponse: the content must be a JSON object of strings
ParsesAsMap(content) == content \in {"map", "map_with_destination"}
ParseErr(host) == NewErr("fail to parse response", host, 0)

\* an upload result handling that returns at the first host that is not passing
\* and accepts any response that parses
RECURSIVE UploadLoopFirstFailure(_, _, _)
UploadLoopFirstFailure(rc, order, i) ==
    IF i > Len(order) THEN ProcOut(NoErr, Len(order))
    ELSE IF ~isPassing(rc[order[i]]) THEN ProcOut(rc[order[i]].err, i)
    ELSE IF ~ParsesAsMap(rc[order[i]].content)
         THEN ProcOut(Errorf("fail to parse result on host", order[i], 0, ParseErr(order[i])), i)
         ELSE UploadLoopFirstFailure(rc, order, i + 1)
NMAUploadConfigProcessResultFirstFailure(rc, order) == UploadLoopFirstFailure(rc, order, 1)

\* NMAUploadConfigOp.processResult: every result is examined, the errors are joined
RECURSIVE UploadLoop(_, _, _, _)
UploadLoop(rc, order, i, allErrs) ==
    IF i > Len(order) THEN ProcOut(allErrs, Len(order))
    ELSE LET host == order[i]
             result == rc[host]
         IN IF isPassing(result)
            THEN IF ~ParsesAsMap(result.content)
                 THEN UploadLoop(rc, order, i + 1,
                          Join(allErrs, Errorf("fail to parse result on host", host, 0, ParseErr(host))))
                 ELSE IF result.content # "map_with_destination"
                      THEN UploadLoop(rc, order, i + 1,
                               Join(allErrs, NewErr("response does not contain field destination", 0, 0)))
                      ELSE UploadLoop(rc, order, i + 1, allErrs)
            ELSE UploadLoop(rc, order, i + 1, Join(allErrs, result.err))
NMAUploadConfigProcessResult(rc, order) == UploadLoop(rc, order, 1, NoErr)

\* httpsSandboxingOp.processResult: an unauthorized result or the first passing
\* result ends the loop
RECURSIVE SandboxLoop(_, _, _, _)
SandboxLoop(rc, order, i, allErrs) ==
    IF i > Len(order) THEN ProcOut(allErrs, Len(order))
    ELSE LET host == order[i]
             result == rc[host]
         IN IF isUnauthorizedRequest(result) THEN ProcOut(result.err, i)
            ELSE IF ~isPassing(result)
                 THEN SandboxLoop(rc, order, i + 1, Join(allErrs, result.err))
                 ELSE IF ~ParsesAsMap(result.content)
                      THEN ProcOut(Errorf("fail to parse result on host", host, 0, ParseErr(host)), i)
                      ELSE ProcOut(NoErr, i)
\* a sandbox result handling that joins the error of an unauthorized result
\* like any other failure instead of returning it
RECURSIVE SandboxLoopJoinsUnauthorized(_, _, _, _)
SandboxLoopJoinsUnauthorized(rc, order, i, allErrs) ==
    IF i > Len(order) THEN ProcOut(allErrs, Len(order))
    ELSE LET host == order[i]
             result == rc[host]
         IN IF ~isPassing(result)
            THEN SandboxLoopJoinsUnauthorized(rc, order, i + 1, Join(allErrs, result.err))
            ELSE IF ~ParsesAsMap(result.content)
                 THEN ProcOut(Errorf("fail to parse result on host", host, 0, ParseErr(host)), i)
                 ELSE ProcOut(NoErr, i)
SandboxProcessResultJoinsUnauthorized(rc, order) == SandboxLoopJoinsUnauthorized(rc, order, 1, NoErr)

SandboxProcessResult(rc, order) == SandboxLoop(rc, order, 1, NoErr)

\* httpsCheckSubclusterOp.processResult: an unauthorized result or the first
\* passing result ends the loop; err keeps the error of the last failing host
RECURSIVE CheckSubclusterLoop(_, _, _, _)
CheckSubclusterLoop(rc, order, i, err) ==
    IF i > Len(order) THEN ProcOut(err, Len(order))
    ELSE LET host == order[i]
             result == rc[host]
         IN IF isUnauthorizedRequest(result) THEN ProcOut(result.err, i)
            ELSE IF ~isPassing(result)
                 THEN CheckSubclusterLoop(rc, order, i + 1, result.err)
                 ELSE IF result.content = "not_json"
                      THEN ProcOut(Errorf("fail to parse result on host", host, 0, ParseErr(host)), i)
                      ELSE IF result.content \notin {"sc_match", "sc_wrong_secondary", "sc_wrong_ctl"}
                           THEN ProcOut(NewErr("new subcluster name should be", 0, 0), i)
                           ELSE IF result.content = "sc_wrong_secondary"
                                THEN ProcOut(NewErr("new subcluster should be secondary or primary", 0, 0), i)
                                ELSE IF result.content = "sc_wrong_ctl"
                                     THEN ProcOut(NewErr("new subcluster should have control set size", 0, 0), i)
                                     ELSE ProcOut(NoErr, i)
\* a check-subcluster result handling without the unauthorized check
RECURSIVE CheckSubclusterLoopNoAuthCheck(_, _, _, _)
CheckSubclusterLoopNoAuthCheck(rc, order, i, err) ==
    IF i > Len(order) THEN ProcOut(err, Len(order))
    ELSE LET host == order[i]
             result == rc[host]
         IN IF ~isPassing(result)
            THEN CheckSubclusterLoopNoAuthCheck(rc, order, i + 1, result.err)
            ELSE IF result.content = "sc_match" THEN ProcOut(NoErr, i)
                 ELSE ProcOut(NewErr("unexpected subcluster response", 0, 0), i)
CheckSubclusterProcessResultNoAuthCheck(rc, order) == CheckSubclusterLoopNoAuthCheck(rc, order, 1, NoErr)

\* a check-subcluster result handling that does not compare the control set size
CheckSubclusterProcessResultIgnoresCtlSize(rc, order) ==
    LET out == CheckSubclusterLoop(rc, order, 1, NoErr)
    IN IF out.err = NewErr("new subcluster should have control set size", 0, 0)
       THEN ProcOut(NoErr, out.examined)
       ELSE out

CheckSubclusterProcessResult(rc, order) == CheckSubclusterLoop(rc, order, 1, NoErr)

\* ------------------------------------------------ download-config, upload-config
\* a string as a text
Text(c) == <<c>>

\* what the result handling of an operation leaves behind: its error, the number
\* of results it examined, the shared file content, and (polling) whether to stop
ResOut(err, examined, content, stop) ==
    [err |-> err, examined |-> examined, fileContent |-> content, stop |-> stop]

\* a download result handling in which every passing result overwrites the file
\* content and the loop runs to the end
RECURSIVE DownloadLoopLastWins(_, _, _, _, _, _)
DownloadLoopLastWins(rc, order, i, allErrs, content, found) ==
    IF i > Len(order)
    THEN IF found THEN ResOut(NoErr, Len(order), content, TRUE)
         ELSE ResOut(Join(allErrs, NewErr("could not find a host with a passing result", 0, 0)),
                     Len(order), content, TRUE)
    ELSE LET result == rc[order[i]]
         IN IF isPassing(result)
            THEN DownloadLoopLastWins(rc, order, i + 1, allErrs, Text(result.content), TRUE)
            ELSE DownloadLoopLastWins(rc, order, i + 1, Join(allErrs, result.err), content, found)
NMADownloadConfigProcessResultLastWins(rc, order, content) ==
    DownloadLoopLastWins(rc, order, 1, NoErr, content, FALSE)

\* NMADownloadConfigOp.processResult: the first passing result, in iteration
\* order, is stored into *op.fileContent and ends the loop
RECURSIVE DownloadLoop(_, _, _, _, _)
DownloadLoop(rc, order, i, allErrs, content) ==
    IF i > Len(order)
    THEN ResOut(Join(allErrs, NewErr("could not find a host with a passing result", 0, 0)),
                Len(order), content, TRUE)
    ELSE LET result == rc[order[i]]
         IN IF isPassing(result)
            THEN ResOut(NoErr, i, Text(result.content), TRUE)
            ELSE DownloadLoop(rc, order, i + 1, Join(allErrs, result.err), content)
NMADownloadConfigProcessResult(rc, order, content) == DownloadLoop(rc, order, 1, NoErr, content)


\* ------------------------------------------------------------ spread security
\* nmaSpreadSecurityOp.processResult: the errors of failing hosts are collected
\* in allErrs; only a response that does not parse makes it return an error
RECURSIVE SpreadSecurityLoop(_, _, _, _)
SpreadSecurityLoop(rc, order, i, allErrs) ==
    IF i > Len(order) THEN ProcOut(NoErr, Len(order))
    ELSE LET host == order[i]
             result == rc[host]
         IN IF isPassing(result)
            THEN IF ~ParsesAsMap(result.content)
                 THEN ProcOut(Join(allErrs, ParseErr(host)), i)
                 ELSE SpreadSecurityLoop(rc, order, i + 1, allErrs)
            ELSE SpreadSecurityLoop(rc, order, i + 1, Join(allErrs, result.err))
SpreadSecurityProcessResult(rc, order) == SpreadSecurityLoop(rc, order, 1, NoErr)

\* op.processResult(execContext), dispatched on the concrete type of the operation
\* ----------------------------------------------------- catalog-editor read
\* the catalog version of the catalog image a host answered with; 0: no valid
\* catalog
CatalogVersion(content) ==
    IF content = "catalog_v1" THEN 1 ELSE IF content = "catalog_v2" THEN 2 ELSE 0

\* the hosts that returned a valid catalog
ValidCatalogHosts(rc) == {h \in DOMAIN rc : isPassing(rc[h]) /\ CatalogVersion(rc[h].content) > 0}

\* a selection that takes every host with a valid catalog
HostsWithLatestCatalogAnyValid(rc) == SetToSeq(ValidCatalogHosts(rc))

\* the hosts with the maximum catalog version, in host order
HostsWithLatestCatalog(rc) ==
    SetToSeq({h \in ValidCatalogHosts(rc) :
                 \A k \in ValidCatalogHosts(rc) :
                     CatalogVersion(rc[k].content) <= CatalogVersion(rc[h].content)})

\* the context after the finalize of the catalog-editor read
ReadCatalogEditorFinalizeCtx(rc, c) ==
    [c EXCEPT !.hostsWithLatestCatalog = HostsWithLatestCatalog(rc),
              !.nmaVDBHosts = IF ValidCatalogHosts(rc) = {} THEN {} ELSE Hosts]

OpProcessResult(kind, rc, order) ==
    IF kind = "sandbox" THEN SandboxProcessResult(rc, order)
    ELSE IF kind = "readcatalog" THEN ProcOut(NoErr, Len(order))
    ELSE IF kind = "checksc" THEN CheckSubclusterProcessResult(rc, order)
    ELSE IF kind = "spread" THEN SpreadSecurityProcessResult(rc, order)
    ELSE IF kind = "download"
         THEN LET out == NMADownloadConfigProcessResult(rc, order, NoText)
              IN ProcOut(out.err, out.examined)
         ELSE NMAUploadConfigProcessResult(rc, order)

\* the shared file content after the processResult of the operation
OpFileContent(kind, rc, order, content) ==
    IF kind = "download" THEN NMADownloadConfigProcessResult(rc, order, content).fileContent
    ELSE content

\* the content a host answers with when the request succeeds
GoodContent(kind) ==
    IF kind = "sandbox" THEN "map"
    ELSE IF kind = "checksc" THEN "sc_match"
    ELSE IF kind = "spread" THEN "map"
    ELSE IF kind = "download" THEN "conf_a"
    ELSE IF kind = "pollnode" THEN "node_up"
    ELSE IF kind = "readcatalog" THEN "catalog_v2"
    ELSE "map_with_destination"

\* ------------------------------------------------------------- the engine
\* certs taken from the options as soon as one of the three is given
shouldGetCertsFromOptionsAnySet(c) == c.key \/ c.cert \/ c.caCert

\* VClusterOpEngine.shouldGetCertsFromOptions
shouldGetCertsFromOptions(c) == c.key /\ c.cert /\ c.caCert

\* opBase.loadCertsIfNeeded: the error it returns
loadCertsIfNeededErr(opState, findCertsInOptions) ==
    IF ~findCertsInOptions THEN NoErr
    ELSE IF opState.skipExecute THEN NoErr
    ELSE IF Cardinality(DOMAIN opState.reqs) = 0
         THEN NewErr("has not set up a http request, skipping cert loading", 0, 0)
         ELSE NoErr

\* opBase.loadCertsIfNeeded: the request collection it leaves behind
loadCertsIfNeededReqs(opState, findCertsInOptions) ==
    IF findCertsInOptions /\ ~opState.skipExecute
    THEN [h \in DOMAIN opState.reqs |-> TRUE]
    ELSE opState.reqs

\* one phase call of run(): the phase, the operation and the error it returned
Call(phase, op, ret) == [phase |-> phase, op |-> op, ret |-> ret]

\* the wrapping run() applies to the error of a failed phase
WrapPhaseErrDropsCause(phase, op, err) ==
    IF phase = "prepare" THEN NewErr("prepare %s failed, details: %w", op, 0)
    ELSE IF phase = "loadCerts" THEN NewErr("loadCertsIfNeeded for %s failed, details: %w", op, 0)
    ELSE IF phase = "execute" THEN NewErr("execute %s failed, details: %w", op, 0)
    ELSE NewErr("finalize failed %w", 0, 0)

WrapPhaseErr(phase, op, err) ==
    IF phase = "prepare" THEN Errorf("prepare %s failed, details: %w", op, 0, err)
    ELSE IF phase = "loadCerts" THEN Errorf("loadCertsIfNeeded for %s failed, details: %w", op, 0, err)
    ELSE IF phase = "execute" THEN Errorf("execute %s failed, details: %w", op, 0, err)
    ELSE Errorf("finalize failed %w", 0, 0, err)

\* the control flow of the loop of run(): where it goes after a phase of
\* operation i of n returned err
RunGotoStopsEarly(phase, err, skipExecute, i, n) ==
    IF err # NoErr THEN "done"
    ELSE IF phase = "prepare" THEN (IF skipExecute THEN "finalize" ELSE "loadCerts")
    ELSE IF phase = "loadCerts" THEN "execute"
    ELSE IF phase = "execute" THEN "finalize"
    ELSE IF i + 1 < n THEN "prepare" ELSE "done"

RunGotoIgnoresFinalizeErr(phase, err, skipExecute, i, n) ==
    IF err # NoErr /\ phase # "finalize" THEN "done"
    ELSE IF phase = "prepare" THEN (IF skipExecute THEN "finalize" ELSE "loadCerts")
    ELSE IF phase = "loadCerts" THEN "execute"
    ELSE IF phase = "execute" THEN "finalize"
    ELSE IF i < n THEN "prepare" ELSE "done"

RunGotoIgnoresSkip(phase, err, skipExecute, i, n) ==
    IF err # NoErr THEN "done"
    ELSE IF phase = "prepare" THEN "loadCerts"
    ELSE IF phase = "loadCerts" THEN "execute"
    ELSE IF phase = "execute" THEN "finalize"
    ELSE IF i < n THEN "prepare" ELSE "done"

RunGoto(phase, err, skipExecute, i, n) ==
    IF err # NoErr THEN "done"
    ELSE IF phase = "prepare" THEN (IF skipExecute THEN "finalize" ELSE "loadCerts")
    ELSE IF phase = "loadCerts" THEN "execute"
    ELSE IF phase = "execute" THEN "finalize"
    ELSE IF i < n THEN "prepare" ELSE "done"

\* the sizes dispatcher.setup may give the worker pool: one slot, or one per host
PoolSizes == {1, NumHosts}

\* a run that goes on with the context the engine variable held before
ExecContextOfEarlierRun == ctx

\* makeOpEngineExecContext: a context in which nothing is published
makeOpEngineExecContext == EmptyCtx

\* run(): makeOpEngineExecContext, then the loop over the instructions starts
RunStart ==
    /\ pc = "start"
    /\ ctx' = makeOpEngineExecContext
    /\ idx' = 1
    /\ pc' = IF Len(plan) = 0 THEN "done" ELSE "prepare"
    /\ UNCHANGED <<plan, certs, ops, results, calls, runErr>>
    /\ UNCHANGED dispatchVars
    /\ UNCHANGED fnVars
    /\ UNCHANGED dataVars

\* run(): op.prepare
Prepare ==
    /\ pc = "prepare"
    /\ \E outcome \in StubOutcomes, emptyFails \in BOOLEAN, slots \in PoolSizes, rnd \in SpreadRandoms :
         LET out == OpPrepare(plan[idx], ctx, outcome, emptyFails, rnd)
         IN /\ calls' = Append(calls, Call("prepare", idx, out.err))
            /\ bodies' = [bodies EXCEPT ![idx] = PrepareBodies(plan[idx], out, fileContent, rnd)]
            /\ fileContent' = PrepareFileContent(plan[idx], out, fileContent)
            /\ log' = log \cup PrepareLog(plan[idx], out, fileContent, rnd)
            /\ ops' = [ops EXCEPT ![idx] =
                          [skipExecute |-> out.skip, hosts |-> out.hosts,
                           reqs |-> [h \in out.reqHosts |-> FALSE]]]
            /\ poolSize' = IF out.setup THEN slots ELSE poolSize
            /\ runErr' = IF out.err # NoErr THEN WrapPhaseErr("prepare", idx, out.err) ELSE runErr
            /\ pc' = RunGoto("prepare", out.err, out.skip, idx, Len(plan))
    /\ UNCHANGED <<plan, certs, idx, ctx, results>>
    /\ UNCHANGED <<pending, inflight, dispatched, prLog>>
    /\ UNCHANGED fnVars
    /\ UNCHANGED <<cmd, polls>>

\* run(): op.loadCertsIfNeeded
LoadCerts ==
    /\ pc = "loadCerts"
    /\ LET find == shouldGetCertsFromOptions(certs)
           err == loadCertsIfNeededErr(ops[idx], find)
       IN /\ calls' = Append(calls, Call("loadCerts", idx, err))
          /\ ops' = [ops EXCEPT ![idx].reqs =
                        IF err = NoErr THEN loadCertsIfNeededReqs(ops[idx], find) ELSE @]
          /\ runErr' = IF err # NoErr THEN WrapPhaseErr("loadCerts", idx, err) ELSE runErr
          /\ pc' = RunGoto("loadCerts", err, FALSE, idx, Len(plan))
    /\ UNCHANGED <<plan, certs, idx, ctx, results>>
    /\ UNCHANGED dispatchVars
    /\ UNCHANGED fnVars
    /\ UNCHANGED dataVars

\* ---------------------------------------------------------- the dispatcher
\* the responses a host can give to a request of an operation of this kind
Responses(kind, host) ==
    {MakeResult(host, SuccessCode, GoodContent(kind)),
     MakeResult(host, UnauthorizedCode, "Wrong password"),
     MakeResult(host, InternalErrorCode, "internal error")}
    \cup (IF kind = "download" THEN {MakeResult(host, SuccessCode, "conf_b")} ELSE {})
    \cup (IF kind = "pollnode" THEN {MakeResult(host, SuccessCode, "node_down")} ELSE {})
    \cup (IF kind = "checksc"
          THEN {MakeResult(host, SuccessCode, "sc_wrong_secondary"),
                MakeResult(host, SuccessCode, "sc_wrong_ctl"),
                MakeResult(host, SuccessCode, "sc_wrong_name")}
          ELSE {})
    \cup (IF kind = "readcatalog"
          THEN {MakeResult(host, SuccessCode, "catalog_v1"), MakeResult(host, SuccessCode, "not_json")}
          ELSE {})

\* sendRequest returns when no call waits for a worker and none is in flight
sendRequestDoneNoneRunning(waiting, running) == running = {}

sendRequestDone(waiting, running) == waiting = {} /\ running = {}

\* a worker slot is free
WorkerFree(running, slots) == Cardinality(running) < slots

\* prLog before processResult was ever called
NoProcCall == [op |-> 0, keys |-> {}, reqKeys |-> {}, results |-> NoResults,
               pending |-> {}, inflight |-> {}, examined |-> {}, err |-> NoErr]

\* the entry of prLog written when processResult is called
ProcCall(op, opState, res, waiting, running, examined, err) ==
    [op |-> op, keys |-> DOMAIN res, reqKeys |-> DOMAIN opState.reqs, results |-> res,
     pending |-> waiting, inflight |-> running, examined |-> examined, err |-> err]

\* opBase.execute: the hosts of the request collection handed to sendRequest
executeTargetsFromHosts(opState) == Range(opState.hosts)

executeTargets(opState) == DOMAIN opState.reqs

\* run(): op.execute is called; it hands the request collection to the dispatcher
ExecuteStart ==
    /\ pc = "execute"
    /\ calls' = Append(calls, Call("execute", idx, NoErr))
    /\ pending' = executeTargets(ops[idx])
    /\ inflight' = {}
    /\ results' = NoResults
    /\ prLog' = NoProcCall
    /\ pc' = "fanout"
    /\ polls' = 0
    /\ UNCHANGED <<plan, certs, idx, ctx, ops, runErr>>
    /\ UNCHANGED <<poolSize, dispatched>>
    /\ UNCHANGED fnVars
    /\ UNCHANGED <<fileContent, bodies, log, cmd>>

\* dispatcher: a free worker takes the request of one host and sends it
WorkerStart ==
    /\ pc = "fanout"
    /\ WorkerFree(inflight, poolSize)
    /\ \E h \in pending :
         /\ pending' = pending \ {h}
         /\ inflight' = inflight \cup {h}
         /\ dispatched' = dispatched \cup {<<idx, h>>}
    /\ UNCHANGED engineVars
    /\ UNCHANGED <<poolSize, prLog>>
    /\ UNCHANGED fnVars
    /\ UNCHANGED dataVars

\* dispatcher: the call to one host returns; its result is stored under the host
HostReturn ==
    /\ pc = "fanout"
    /\ \E h \in inflight :
         \E r \in Responses(plan[idx].kind, h) :
            /\ inflight' = inflight \ {h}
            /\ results' = [k \in DOMAIN results \cup {h} |-> IF k = h THEN r ELSE results[k]]
    /\ UNCHANGED <<plan, certs, pc, idx, ctx, ops, calls, runErr>>
    /\ UNCHANGED <<pending, poolSize, dispatched, prLog>>
    /\ UNCHANGED fnVars
    /\ UNCHANGED dataVars

\* op.execute: sendRequest has returned, processResult runs over the result map
\* in some iteration order, and execute returns its error to run()
ExecuteReturn ==
    /\ pc = "fanout"
    /\ plan[idx].kind \notin PollKinds
    /\ sendRequestDone(pending, inflight)
    /\ \E order \in Orders(DOMAIN results) :
         LET out == OpProcessResult(plan[idx].kind, results, order)
         IN /\ prLog' = ProcCall(idx, ops[idx], results, pending, inflight,
                                 {order[i] : i \in 1..out.examined}, out.err)
            /\ calls' = [calls EXCEPT ![Len(calls)].ret = out.err]
            /\ runErr' = IF out.err # NoErr THEN WrapPhaseErr("execute", idx, out.err) ELSE runErr
            /\ pc' = RunGoto("execute", out.err, FALSE, idx, Len(plan))
            /\ fileContent' = OpFileContent(plan[idx].kind, results, order, fileContent)
    /\ UNCHANGED <<plan, certs, idx, ctx, ops, results>>
    /\ UNCHANGED <<pending, inflight, poolSize, dispatched>>
    /\ UNCHANGED fnVars
    /\ UNCHANGED <<bodies, log, cmd, polls>>

\* finalize of an operation: only an operation behind the interface can fail or publish
OpFinalizeErr(op, finOk) ==
    IF op.kind = "stub" /\ ~finOk THEN NewErr("finalize", 0, 0) ELSE NoErr

OpFinalizeCtx(op, c, err) ==
    IF op.kind = "stub" /\ op.publish.any /\ err = NoErr
    THEN [hostsWithLatestCatalog |-> op.publish.hostsWithLatestCatalog,
          nmaVDBHosts |-> op.publish.nmaVDBHosts,
          upHosts |-> op.publish.upHosts,
          sandboxingHosts |-> op.publish.sandboxingHosts]
    ELSE c

\* run(): op.finalize, then the next operation or return nil
Finalize ==
    /\ pc = "finalize"
    /\ \E finOk \in BOOLEAN :
         LET err == OpFinalizeErr(plan[idx], finOk)
         IN /\ calls' = Append(calls, Call("finalize", idx, err))
            /\ ctx' = IF plan[idx].kind = "readcatalog"
                       THEN ReadCatalogEditorFinalizeCtx(results, ctx)
                       ELSE OpFinalizeCtx(plan[idx], ctx, err)
            /\ runErr' = IF err # NoErr THEN WrapPhaseErr("finalize", idx, err) ELSE runErr
            /\ pc' = RunGoto("finalize", err, FALSE, idx, Len(plan))
            /\ idx' = IF RunGoto("finalize", err, FALSE, idx, Len(plan)) = "prepare" THEN idx + 1 ELSE idx
    /\ UNCHANGED <<plan, certs, ops, results>>
    /\ UNCHANGED dispatchVars
    /\ UNCHANGED fnVars
    /\ UNCHANGED dataVars

\* ------------------------------------------------------ the plans explored
AllHosts == SetToSeq(Hosts)

\* what a catalog-editor read followed by an up-node probe may publish
Publish(latest, inCatalog, up) ==
    [any |-> TRUE, hostsWithLatestCatalog |-> SetToSeq(latest), nmaVDBHosts |-> inCatalog,
     upHosts |-> SetToSeq(up), sandboxingHosts |-> SetToSeq(up)]

Publishers ==
    {StubOp(<<1>>, Publish(latest, Hosts, Hosts)) : latest \in SUBSET Hosts}
    \cup {StubOp(<<1>>, Publish({1}, Hosts \ {NumHosts}, {}))}

UploadOps ==
    {UploadOp(TRUE, <<>>, dest, {}) : dest \in {AllHosts, <<1>>, <<2, 1, 2>>}}
    \cup {UploadOp(FALSE, src, dest, {}) : src \in {<<1>>, <<>>}, dest \in {AllHosts, <<1>>}}
    \cup {UploadOp(TRUE, <<>>, AllHosts, Hosts), UploadOp(FALSE, <<1>>, <<1>>, {1})}

\* the operations the plans of the engine are built from: two operations behind
\* the interface, a catalog read that finds hosts 1 and 2 up to date, an upload
\* to the hosts that lack the latest catalog (one that has work and one that has
\* none), the sandbox and the check-subcluster operation
OpMenu ==
    {StubOp(<<>>, NoPublish), StubOp(<<1, 2>>, NoPublish),
     StubOp(<<1>>, Publish({1, 2}, Hosts, Hosts)),
     UploadOp(TRUE, <<>>, AllHosts, {}), UploadOp(TRUE, <<>>, <<1, 2>>, {}),
     SandboxOp, CheckSubclusterOp}

Plans == UNION {[1..n -> OpMenu] : n \in 0..MaxOps}

Certs(key, cert, caCert) == [key |-> key, cert |-> cert, caCert |-> caCert]
CertChoices == {Certs(TRUE, TRUE, TRUE), Certs(FALSE, FALSE, FALSE), Certs(TRUE, TRUE, FALSE)}

\* makeClusterOpEngine(instructions, certs): the engine before run() is called
Init ==
    /\ plan \in Plans
    /\ certs \in CertChoices
    /\ pc = "start"
    /\ idx = 0
    /\ ctx = EmptyCtx
    /\ ops = [i \in 1..Len(plan) |-> FreshOpState]
    /\ results = NoResults
    /\ calls = <<>>
    /\ runErr = NoErr
    /\ pending = {}
    /\ inflight = {}
    /\ poolSize = 0
    /\ dispatched = {}
    /\ prLog = NoProcCall
    /\ fnIn = 0
    /\ fnOut = 0
    /\ fileContent = NoText
    /\ bodies = [i \in 1..Len(plan) |-> NoBodies]
    /\ log = {}
    /\ cmd = NotReturned
    /\ polls = 0

Next ==
    \/ RunStart
    \/ Prepare
    \/ LoadCerts
    \/ ExecuteStart
    \/ WorkerStart
    \/ HostReturn
    \/ ExecuteReturn
    \/ Finalize

Spec == Init /\ [][Next]_vars

\* transfer-config plans: a catalog read publishing some set of hosts with the
\* latest catalog, followed by an upload-config operation
\* the plans with an upload-config: built without node information it follows
\* a catalog read (start_db); built with the nodes of the vdb (add_node,
\* restart_node) its plan has no catalog read, and no host with the latest
\* catalog is published before it
UploadPlans ==
    {pl \in {<<p, u>> : p \in Publishers, u \in UploadOps} :
        (pl[2].sourceNil /\ pl[2].vdbHosts # {}) => pl[1].publish.hostsWithLatestCatalog = <<>>}

InitUpload ==
    /\ plan \in UploadPlans
    /\ certs \in CertChoices
    /\ pc = "start"
    /\ idx = 0
    /\ ctx = EmptyCtx
    /\ ops = [i \in 1..Len(plan) |-> FreshOpState]
    /\ results = NoResults
    /\ calls = <<>>
    /\ runErr = NoErr
    /\ pending = {}
    /\ inflight = {}
    /\ poolSize = 0
    /\ dispatched = {}
    /\ prLog = NoProcCall
    /\ fnIn = 0
    /\ fnOut = 0
    /\ fileContent = NoText
    /\ bodies = [i \in 1..Len(plan) |-> NoBodies]
    /\ log = {}
    /\ cmd = NotReturned
    /\ polls = 0

SpecUpload == InitUpload /\ [][Next]_vars

\* ------------------------------------------------------------------ claims
\* the phase and the operation of every call made so far
Phases(cs) == [k \in 1..Len(cs) |-> <<cs[k].phase, cs[k].op>>]

\* the calls one operation gets in a run in which nothing fails
RECURSIVE ExpectedCalls(_, _)
ExpectedCalls(i, n) ==
    IF i > n THEN <<>>
    ELSE (IF ops[i].skipExecute
          THEN << <<"prepare", i>>, <<"finalize", i>> >>
          ELSE << <<"prepare", i>>, <<"loadCerts", i>>, <<"execute", i>>, <<"finalize", i>> >>)
         \o ExpectedCalls(i + 1, n)

IsPrefix(s, t) == Len(s) <= Len(t) /\ SubSeq(t, 1, Len(s)) = s

\* C1: at every moment the phase calls made so far are a prefix of
\* prepare(op1), [loadCerts(op1), execute(op1)] unless op1 is skipped,
\* finalize(op1), prepare(op2), ... in plan order, and a run that succeeds has
\* made exactly that sequence: every phase at most once, no phase of operation
\* i+1 before finalize of operation i has returned.
C1_PhaseOrder ==
    /\ IsPrefix(Phases(calls), ExpectedCalls(1, Len(plan)))
    /\ (pc = "done" /\ runErr = NoErr) => Phases(calls) = ExpectedCalls(1, Len(plan))

C1_Witness ==
    /\ pc = "done" /\ runErr = NoErr /\ Len(plan) = 2
    /\ ops[1].skipExecute /\ ~ops[2].skipExecute
    /\ Len(calls) = 6

\* C2: a phase call that returned an error is the last call run() makes: run()
\* has returned, its error is non-nil, and no later phase of that operation and
\* no phase of a later operation was invoked.
C2_StopAtFirstFailure ==
    \A k \in 1..Len(calls) :
        calls[k].ret # NoErr =>
            /\ k = Len(calls)
            /\ pc = "done"
            /\ runErr # NoErr
            /\ \A j \in 1..Len(calls) : calls[j].op <= calls[k].op

C2_Witness ==
    /\ pc = "done" /\ Len(plan) = 2
    /\ Len(calls) > 0 /\ Last(calls).op = 1 /\ Last(calls).ret # NoErr
    /\ Last(calls).phase = "finalize"

\* C3 as stated: the error run() returns is the very error value the failing
\* phase returned.
C3_Verbatim ==
    (pc = "done" /\ runErr # NoErr) => runErr = Last(calls).ret

\* C3 amended: the error run() returns wraps the error of the first failing
\* phase: it is a new error whose chain continues with exactly that error
\* (errors.Unwrap gives it back unchanged), and run() returns nil exactly when
\* no phase failed.
C3_WrapsFirstFailure ==
    pc = "done" =>
        IF \E k \in 1..Len(calls) : calls[k].ret # NoErr
        THEN LET k == CHOOSE j \in 1..Len(calls) :
                          /\ calls[j].ret # NoErr
                          /\ \A m \in 1..(j - 1) : calls[m].ret = NoErr
             IN /\ runErr # NoErr
                /\ Unwrap(runErr) = calls[k].ret
                /\ runErr # calls[k].ret
        ELSE runErr = NoErr

C3_Witness ==
    /\ pc = "done" /\ runErr # NoErr
    /\ Last(calls).phase = "execute" /\ Len(Last(calls).ret) > 1

\* C4: after a prepare that succeeded and left skipExecute set, the next call,
\* if any, is finalize of the same operation: neither loadCertsIfNeeded nor
\* execute is called for it and no request of it is dispatched; and after a
\* finalize that succeeded the engine goes on to prepare the next operation.
C4_SkipExecute ==
    \A k \in 1..Len(calls) :
        LET c == calls[k] IN
        /\ (c.phase = "prepare" /\ c.ret = NoErr /\ ops[c.op].skipExecute) =>
              /\ \A j \in 1..Len(calls) :
                     calls[j].op = c.op => calls[j].phase \in {"prepare", "finalize"}
              /\ \A h \in Hosts : <<c.op, h>> \notin dispatched
              /\ IF k < Len(calls)
                 THEN calls[k + 1].phase = "finalize" /\ calls[k + 1].op = c.op
                 ELSE pc = "finalize" /\ idx = c.op
        /\ (c.phase = "finalize" /\ c.ret = NoErr /\ ops[c.op].skipExecute /\ c.op < Len(plan)) =>
              IF k < Len(calls)
              THEN calls[k + 1].phase = "prepare" /\ calls[k + 1].op = c.op + 1
              ELSE pc = "prepare" /\ idx = c.op + 1

C4_Witness ==
    /\ Len(plan) = 2 /\ ops[1].skipExecute
    /\ plan[2].kind = "upload" /\ ops[2].skipExecute
    /\ pc = "done" /\ runErr = NoErr
    /\ Phases(calls) = << <<"prepare", 1>>, <<"finalize", 1>>, <<"prepare", 2>>, <<"finalize", 2>> >>

\* C5: when processResult is called the result collection holds exactly one
\* entry per host of the request collection, stored under that host: no host
\* is missing and none is extra; and while the fan-out runs no result is
\* stored for a host that has no request.
C5_OneResultPerHost ==
    /\ prLog.op # 0 =>
          /\ prLog.keys = prLog.reqKeys
          /\ \A h \in prLog.keys : prLog.results[h].host = h
    /\ pc = "fanout" => DOMAIN results \subseteq DOMAIN ops[idx].reqs

C5_Witness ==
    /\ prLog.op # 0
    /\ Cardinality(prLog.reqKeys) = NumHosts
    /\ prLog.keys = Hosts

\* C6: the fan-out of an operation is over only when no request waits for a
\* worker and no call is in flight: whenever run() is outside the fan-out, and
\* at the moment processResult is called, every request that was sent has its
\* result, also with fewer worker slots than hosts and after a host has failed.
C6_FanOutDrains ==
    /\ pc # "fanout" => pending = {} /\ inflight = {}
    /\ prLog.op # 0 =>
          /\ prLog.pending = {} /\ prLog.inflight = {}
          /\ \A h \in Hosts : <<prLog.op, h>> \in dispatched <=> h \in prLog.keys

C6_Witness ==
    /\ prLog.op # 0
    /\ poolSize < Cardinality(prLog.reqKeys)
    /\ Cardinality(prLog.keys) = NumHosts
    /\ \E h \in prLog.keys : ~isPassing(prLog.results[h])
    /\ \E h \in prLog.keys : isPassing(prLog.results[h])

\* the operations sent to the HTTPS service of the database
HTTPSKinds == {"sandbox", "checksc"}

\* the operation answered 401 by every host it was sent to
AllUnauthorized ==
    /\ prLog.op # 0
    /\ plan[prLog.op].kind \in HTTPSKinds
    /\ \A h \in prLog.keys : isUnauthorizedRequest(prLog.results[h])

\* C7 as stated: when the engine returns the authentication error of an HTTPS
\* operation sent to several hosts, it has the response of one host only: it
\* did not wait for the others.
C7_ReturnsWithoutWaiting ==
    (pc = "done" /\ AllUnauthorized /\ Cardinality(prLog.reqKeys) > 1)
        => Cardinality(prLog.keys) = 1

\* C7 amended: with a wrong password (every host answers 401) the engine first
\* collects the responses of all hosts; processResult then returns the error
\* of the first result it looks at without examining the others, and run()
\* returns that error wrapped.
C7_AuthAbortAfterDrain ==
    AllUnauthorized =>
        /\ prLog.keys = prLog.reqKeys
        /\ Cardinality(prLog.examined) = 1
        /\ \E h \in prLog.examined : prLog.err = prLog.results[h].err
        /\ pc = "done"
        /\ Unwrap(runErr) = prLog.err
        /\ Last(calls) = Call("execute", prLog.op, prLog.err)

C7_Witness ==
    /\ AllUnauthorized
    /\ prLog.keys = Hosts
    /\ plan[prLog.op].kind = "sandbox"
    /\ pc = "done"


\* ------------------------------------- processResult as a function of its input
\* every result a host can leave in the result collection of an HTTPS operation:
\* success with each content the operation distinguishes, 401, 500, transport error
ResultMenu(kind) ==
    {<<SuccessCode, c>> :
        c \in IF kind = "sandbox" THEN {"map", "not_json"}
              ELSE {"sc_match", "not_json", "sc_wrong_name", "sc_wrong_secondary", "sc_wrong_ctl"}}
    \cup {<<UnauthorizedCode, "Wrong password">>, <<InternalErrorCode, "internal error">>, <<0, "">>}

\* the result collections of an operation of this kind over every non-empty set of hosts
ResultCollections(kind) ==
    UNION {{[h \in S |-> MakeResult(h, f[h][1], f[h][2])] : f \in [S -> ResultMenu(kind)]} :
              S \in (SUBSET Hosts) \ {{}}}

NotCalled == [done |-> FALSE, err |-> NoErr, examined |-> 0, order |-> <<>>]

\* an operation whose execute has collected rc and is about to call processResult
InitProcessResult ==
    /\ \E kind \in {"sandbox", "checksc"} :
         \E rc \in ResultCollections(kind) : fnIn = [kind |-> kind, rc |-> rc]
    /\ fnOut = NotCalled
    /\ plan = <<>>
    /\ certs = Certs(FALSE, FALSE, FALSE)
    /\ pc = "processResult"
    /\ idx = 0
    /\ ctx = EmptyCtx
    /\ ops = <<>>
    /\ results = NoResults
    /\ calls = <<>>
    /\ runErr = NoErr
    /\ pending = {}
    /\ inflight = {}
    /\ poolSize = 0
    /\ dispatched = {}
    /\ prLog = NoProcCall
    /\ fileContent = NoText
    /\ bodies = <<>>
    /\ log = {}
    /\ cmd = NotReturned
    /\ polls = 0

\* op.processResult(execContext) iterating the result map in some order
ProcessResultCall ==
    /\ pc = "processResult"
    /\ ~fnOut.done
    /\ \E order \in Orders(DOMAIN fnIn.rc) :
         LET out == OpProcessResult(fnIn.kind, fnIn.rc, order)
         IN fnOut' = [done |-> TRUE, err |-> out.err, examined |-> out.examined, order |-> order]
    /\ UNCHANGED fnIn
    /\ UNCHANGED engineVars
    /\ UNCHANGED dispatchVars
    /\ UNCHANGED dataVars

NextProcessResult == ProcessResultCall

SpecProcessResult == InitProcessResult /\ [][NextProcessResult]_vars

\* the hosts of a result collection that answered 401
UnauthorizedHosts(rc) == {h \in DOMAIN rc : isUnauthorizedRequest(rc[h])}

\* the positions of an iteration order at which the loop of processResult can
\* return: an unauthorized result or a passing result
Decisive(rc, order) ==
    {i \in 1..Len(order) : isUnauthorizedRequest(rc[order[i]]) \/ isPassing(rc[order[i]])}

FirstDecisive(rc, order) == CHOOSE i \in Decisive(rc, order) : \A j \in Decisive(rc, order) : i <= j

\* C8 as stated: whenever the result collection holds a 401 result, processResult
\* of the sandbox and of the check-subcluster operation returns the error of a
\* host that answered 401, whatever the other results and the iteration order.
C8_AnyUnauthorizedFails ==
    (fnOut.done /\ UnauthorizedHosts(fnIn.rc) # {})
        => \E h \in UnauthorizedHosts(fnIn.rc) : fnOut.err = fnIn.rc[h].err

\* C8 (amended): processResult returns at the first result, in iteration order,
\* that is unauthorized or passing.  If that result is unauthorized, the error
\* returned is that host's error, whatever failing results came before it; if
\* it is passing, that result alone decides the outcome and no unauthorized
\* result is examined or reported.
C8_FirstDecisiveResult ==
    (fnOut.done /\ Decisive(fnIn.rc, fnOut.order) # {})
        => LET d == FirstDecisive(fnIn.rc, fnOut.order)
               r == fnIn.rc[fnOut.order[d]]
           IN /\ fnOut.examined = d
              /\ isUnauthorizedRequest(r) => (fnOut.err = r.err /\ fnOut.err # NoErr)
              /\ isPassing(r) => \A h \in UnauthorizedHosts(fnIn.rc) : fnOut.err # fnIn.rc[h].err

\* check-subcluster: a 500 result is iterated first, then a 401 result, and a
\* passing result is left unexamined; the 401 host's error is returned
C8_Witness ==
    /\ fnOut.done
    /\ fnIn.kind = "checksc"
    /\ Len(fnOut.order) = NumHosts
    /\ isInternalError(fnIn.rc[fnOut.order[1]])
    /\ isUnauthorizedRequest(fnIn.rc[fnOut.order[2]])
    /\ \E i \in 3..NumHosts : isPassing(fnIn.rc[fnOut.order[i]])
    /\ fnOut.examined = 2
    /\ fnOut.err = fnIn.rc[fnOut.order[2]].err


\* ----------------------------------------------- upload-config target selection
\* the upload-config operation is the second operation of the plan and its
\* prepare has been called
UploadPrepareCalled ==
    /\ Len(plan) = 2 /\ plan[2].kind = "upload"
    /\ \E k \in 1..Len(calls) : calls[k].phase = "prepare" /\ calls[k].op = 2

\* ... and returned no error
UploadPrepared ==
    /\ Len(plan) = 2 /\ plan[2].kind = "upload"
    /\ \E k \in 1..Len(calls) : calls[k] = Call("prepare", 2, NoErr)

\* the hosts a request of the upload-config operation was sent to
UploadSentTo == {h \in Hosts : <<2, h>> \in dispatched}

\* all destination hosts minus the hosts published by the catalog-editor read
LackLatestCatalog == Range(plan[2].hosts) \ Range(ctx.hostsWithLatestCatalog)

\* all destination hosts minus the source config host
AllButSource == Range(plan[2].hosts) \ Range(plan[2].source)

\* C9: an upload-config operation of transfer-config, built without a source
\* host, sends its requests to exactly the destination hosts that are not in
\* hostsWithLatestCatalog, and is skipped iff there is no such host.
C9_TargetsAreComplement ==
    (UploadPrepared /\ plan[2].sourceNil) =>
        /\ DOMAIN ops[2].reqs = LackLatestCatalog
        /\ ops[2].skipExecute <=> (LackLatestCatalog = {})
        /\ UploadSentTo \subseteq LackLatestCatalog
        /\ prLog.op = 2 => UploadSentTo = LackLatestCatalog

\* hosts 1 and 2 hold the latest catalog: the upload goes to the remaining
\* hosts only, and the plan succeeds
C9_Witness ==
    /\ UploadPrepared /\ plan[2] = UploadOp(TRUE, <<>>, AllHosts, {})
    /\ ctx.hostsWithLatestCatalog = <<1, 2>>
    /\ prLog.op = 2 /\ prLog.keys = Hosts \ {1, 2}
    /\ UploadSentTo = Hosts \ {1, 2}
    /\ pc = "done" /\ runErr = NoErr

\* C10: an upload-config operation built with a source config host has the
\* request hosts destination minus source, and when that set is empty its
\* prepare succeeds with skipExecute set, nothing is dispatched, and the
\* plan ends without error whether or not TLS certs were supplied.
C10_SourceHostSkip ==
    (UploadPrepareCalled /\ ~plan[2].sourceNil) =>
        /\ UploadPrepared => DOMAIN ops[2].reqs = AllButSource
        /\ UploadSentTo \subseteq AllButSource
        /\ AllButSource = {} =>
              /\ UploadPrepared
              /\ ops[2].skipExecute
              /\ UploadSentTo = {}
              /\ runErr = NoErr


\* ------------------------------------------------------ subscription polling
wrongCredentialErrMsg == {"Wrong password", "Wrong certificate"}

\* a credential error that does not look at the message of the 401 answer
isPasswordAndCertificateErrorAnyMessage(r) == isUnauthorizedRequest(r)

\* HostHTTPResult.isPasswordAndCertificateError
isPasswordAndCertificateError(r) ==
    isUnauthorizedRequest(r) /\ r.content \in wrongCredentialErrMsg

\* the subscription_state of every entry of the subscription_list of a response
SubscriptionStates(content) ==
    IF content = "subs_all_active" THEN <<"ACTIVE", "ACTIVE">>
    ELSE IF content = "subs_one_pending" THEN <<"ACTIVE", "PENDING">>
    ELSE <<>>

\* a polling check that is satisfied by any passing response that parses
RECURSIVE ShouldStopPollingAnyPassing(_, _, _)
ShouldStopPollingAnyPassing(rc, order, i) ==
    IF i > Len(order) THEN ResOut(NoErr, Len(order), NoText, FALSE)
    ELSE LET host == order[i]
             result == rc[host]
         IN IF isPasswordAndCertificateError(result)
            THEN ResOut(NewErr("wrong password/certificate for https service on host", host, 0),
                        i, NoText, TRUE)
            ELSE IF isPassing(result)
                 THEN IF result.content = "not_json" THEN ResOut(ParseErr(host), i, NoText, TRUE)
                      ELSE ResOut(NoErr, i, NoText, TRUE)
                 ELSE ShouldStopPollingAnyPassing(rc, order, i + 1)

\* httpsPollSubscriptionStateOp.shouldStopPolling: (stop, err) of one polling round
RECURSIVE shouldStopPolling(_, _, _)
shouldStopPolling(rc, order, i) ==
    IF i > Len(order) THEN ResOut(NoErr, Len(order), NoText, FALSE)
    ELSE LET host == order[i]
             result == rc[host]
         IN IF isPasswordAndCertificateError(result)
            THEN ResOut(NewErr("wrong password/certificate for https service on host", host, 0),
                        i, NoText, TRUE)
            ELSE IF isPassing(result)
                 THEN IF result.content = "not_json" THEN ResOut(ParseErr(host), i, NoText, TRUE)
                      ELSE IF \E k \in 1..Len(SubscriptionStates(result.content)) :
                                  SubscriptionStates(result.content)[k] # "ACTIVE"
                           THEN ResOut(NoErr, i, NoText, FALSE)
                           ELSE ResOut(NoErr, i, NoText, TRUE)
                 ELSE shouldStopPolling(rc, order, i + 1)


\* ------------------------- result handling of the NMA and polling operations
\* as a function of the collected results
OpResultKinds == {"download", "upload", "spread", "pollsub"}

\* every result a host can leave in the result collection of such an operation
OpResultMenu(kind) ==
    {<<SuccessCode, c>> :
        c \in IF kind = "download" THEN {"conf_a", "conf_b"}
              ELSE IF kind = "upload" THEN {"map_with_destination", "map", "not_json"}
              ELSE IF kind = "spread" THEN {"map", "not_json"}
              ELSE {"subs_all_active", "subs_one_pending", "subs_none", "not_json"}}
    \cup {<<UnauthorizedCode, "Wrong password">>, <<InternalErrorCode, "internal error">>, <<0, "">>}
    \cup (IF kind = "pollsub" THEN {<<UnauthorizedCode, "node has not joined the cluster">>} ELSE {})

\* the result collections of an operation of this kind over every set of hosts
OpResultCollections(kind) ==
    UNION {{[h \in S |-> MakeResult(h, f[h][1], f[h][2])] : f \in [S -> OpResultMenu(kind)]} :
              S \in SUBSET Hosts}

\* the processResult (for polling: the shouldStopPolling) of the operation
OpResult(kind, rc, order, content) ==
    IF kind = "download" THEN NMADownloadConfigProcessResult(rc, order, content)
    ELSE IF kind = "pollsub" THEN shouldStopPolling(rc, order, 1)
    ELSE LET out == IF kind = "upload" THEN NMAUploadConfigProcessResult(rc, order)
                    ELSE SpreadSecurityProcessResult(rc, order)
         IN ResOut(out.err, out.examined, content, TRUE)

ResNotCalled == [done |-> FALSE, err |-> NoErr, examined |-> 0, order |-> <<>>,
                 fileContent |-> NoText, stop |-> FALSE]

\* an operation whose execute has collected rc and is about to handle the results
InitOpResult ==
    /\ \E kind \in OpResultKinds :
         \E rc \in OpResultCollections(kind) :
           \E content \in IF kind = "download" THEN {NoText, Text("conf_old")} ELSE {NoText} :
              fnIn = [kind |-> kind, rc |-> rc, fileContent |-> content]
    /\ fnOut = ResNotCalled
    /\ plan = <<>>
    /\ certs = Certs(FALSE, FALSE, FALSE)
    /\ pc = "processResult"
    /\ idx = 0
    /\ ctx = EmptyCtx
    /\ ops = <<>>
    /\ results = NoResults
    /\ calls = <<>>
    /\ runErr = NoErr
    /\ pending = {}
    /\ inflight = {}
    /\ poolSize = 0
    /\ dispatched = {}
    /\ prLog = NoProcCall
    /\ fileContent = NoText
    /\ bodies = <<>>
    /\ log = {}
    /\ cmd = NotReturned
    /\ polls = 0

\* the result handling runs over the result map in some iteration order
OpResultCall ==
    /\ pc = "processResult"
    /\ ~fnOut.done
    /\ \E order \in Orders(DOMAIN fnIn.rc) :
         LET out == OpResult(fnIn.kind, fnIn.rc, order, fnIn.fileContent)
         IN fnOut' = [done |-> TRUE, err |-> out.err, examined |-> out.examined, order |-> order,
                      fileContent |-> out.fileContent, stop |-> out.stop]
    /\ UNCHANGED fnIn
    /\ UNCHANGED engineVars
    /\ UNCHANGED dispatchVars
    /\ UNCHANGED dataVars

NextOpResult == OpResultCall

SpecOpResult == InitOpResult /\ [][NextOpResult]_vars

\* the hosts of a result collection whose result is passing
PassingHosts(rc) == {h \in DOMAIN rc : isPassing(rc[h])}

\* the positions of an iteration order that hold a passing result
PassingAt(rc, order) == {i \in 1..Len(order) : isPassing(rc[order[i]])}

\* C11: download-config succeeds iff at least one result is passing; on
\* success the shared file content is the content of the first passing result
\* in iteration order and the loop ended there; when no result is passing the
\* error joins every host's error with "could not find a host with a passing
\* result" and the shared file content is left as it was.
C11_DownloadFirstPassing ==
    (fnOut.done /\ fnIn.kind = "download") =>
        /\ fnOut.err = NoErr <=> PassingHosts(fnIn.rc) # {}
        /\ fnOut.err = NoErr =>
              /\ \E h \in PassingHosts(fnIn.rc) : fnOut.fileContent = Text(fnIn.rc[h].content)
              /\ fnOut.examined \in PassingAt(fnIn.rc, fnOut.order)
              /\ \A j \in PassingAt(fnIn.rc, fnOut.order) : fnOut.examined <= j
              /\ fnOut.fileContent = Text(fnIn.rc[fnOut.order[fnOut.examined]].content)
        /\ fnOut.err # NoErr =>
              /\ fnOut.fileContent = fnIn.fileContent
              /\ Last(fnOut.err) = Frame("could not find a host with a passing result", 0, 0)
              /\ \A h \in DOMAIN fnIn.rc : fnIn.rc[h].err[1] \in Range(fnOut.err)
              /\ fnOut.examined = Len(fnOut.order)

\* two hosts pass with different contents after a failing one: the content of
\* the one iterated first is kept, the other passing result is not examined
C11_Witness ==
    /\ fnOut.done /\ fnIn.kind = "download"
    /\ Len(fnOut.order) = NumHosts
    /\ ~isPassing(fnIn.rc[fnOut.order[1]])
    /\ isPassing(fnIn.rc[fnOut.order[2]]) /\ isPassing(fnIn.rc[fnOut.order[3]])
    /\ fnIn.rc[fnOut.order[2]].content # fnIn.rc[fnOut.order[3]].content
    /\ fnIn.fileContent = Text("conf_old")
    /\ fnOut.fileContent = Text(fnIn.rc[fnOut.order[2]].content)
    /\ fnOut.err = NoErr


\* ------------------------------------- plans around the transfer of the config
\* a catalog-editor read; a download-config followed by an upload-config that
\* share the file content (start_db form, source-host form, encryptSpread), or a
\* spread-security operation followed by a later operation
TransferPlans ==
    {<<StubOp(<<1>>, Publish({1, 2}, Hosts, Hosts)), d, u>> :
        d \in {DownloadOp(<<1>>), DownloadOp(<<1, 2>>)},
        u \in {UploadOp(TRUE, <<>>, AllHosts, {}), UploadOp(FALSE, <<1>>, AllHosts, {}),
               UploadOpEncrypt(TRUE, <<>>, AllHosts, {})}}
    \cup {<<StubOp(<<1>>, Publish({1, 2}, Hosts, Hosts)), SpreadSecurityOp(k), StubOp(<<1>>, NoPublish)>> :
             k \in {"vertica", "aws-kms"}}
    \cup {<<StubOp(<<1>>, p), SpreadSecurityOp("vertica"), StubOp(<<1>>, NoPublish)>> :
             p \in {Publish({}, Hosts, Hosts), Publish({1, NumHosts}, Hosts \ {NumHosts}, Hosts)}}

InitTransfer ==
    /\ plan \in TransferPlans
    /\ certs \in CertChoices
    /\ pc = "start"
    /\ idx = 0
    /\ ctx = EmptyCtx
    /\ ops = [i \in 1..Len(plan) |-> FreshOpState]
    /\ results = NoResults
    /\ calls = <<>>
    /\ runErr = NoErr
    /\ pending = {}
    /\ inflight = {}
    /\ poolSize = 0
    /\ dispatched = {}
    /\ prLog = NoProcCall
    /\ fnIn = 0
    /\ fnOut = 0
    /\ fileContent = NoText
    /\ bodies = [i \in 1..Len(plan) |-> NoBodies]
    /\ log = {}
    /\ cmd = NotReturned
    /\ polls = 0

SpecTransfer == InitTransfer /\ [][Next]_vars

\* the plan is a catalog read, a download-config and an upload-config
IsTransferPlan == Len(plan) = 3 /\ plan[2].kind = "download" /\ plan[3].kind = "upload"

\* the download-config of the plan has succeeded / has failed
DownloadSucceeded ==
    /\ \E k \in 1..Len(calls) : calls[k] = Call("execute", 2, NoErr)
    /\ ~(pc = "fanout" /\ idx = 2)
DownloadFailed ==
    \E k \in 1..Len(calls) : calls[k].op = 2 /\ calls[k].ret # NoErr

\* C12: in a plan with a download-config followed by an upload-config sharing
\* the file content, the request bodies of the upload exist only after the
\* download has succeeded; the file content is then the content of the passing
\* download result, and without encryptSpread every request registered and sent
\* by the upload carries exactly that content; if the download fails, the
\* upload gets no call, no body and no request.
C12_UploadCarriesDownload ==
    IsTransferPlan =>
        /\ bodies[3] # NoBodies => DownloadSucceeded
        /\ (prLog.op = 2 /\ prLog.err = NoErr /\ (idx = 2 \/ ~plan[3].encryptSpread)) =>
              \E h \in prLog.examined :
                  /\ isPassing(prLog.results[h])
                  /\ fileContent = Text(prLog.results[h].content)
        /\ (DownloadSucceeded /\ ~plan[3].encryptSpread) =>
              /\ fileContent \in {Text("conf_a"), Text("conf_b")}
              /\ \A h \in DOMAIN bodies[3] : bodies[3][h] = RequestBody(h, fileContent)
              /\ DOMAIN ops[3].reqs \subseteq DOMAIN bodies[3]
              /\ \A h \in Hosts : <<3, h>> \in dispatched => h \in DOMAIN bodies[3]
        /\ DownloadFailed =>
              /\ \A k \in 1..Len(calls) : calls[k].op # 3
              /\ bodies[3] = NoBodies
              /\ \A h \in Hosts : <<3, h>> \notin dispatched
              /\ pc = "done" /\ runErr # NoErr

\* the download from hosts 1 and 2 kept the second content, and the upload has
\* sent it to the host that lacks the latest catalog
C12_Witness ==
    /\ IsTransferPlan /\ plan[2] = DownloadOp(<<1, 2>>) /\ ~plan[3].encryptSpread
    /\ fileContent = Text("conf_b")
    /\ prLog.op = 3 /\ prLog.err = NoErr
    /\ \E h \in Hosts : <<3, h>> \in dispatched /\ bodies[3][h].content = Text("conf_b")
    /\ pc = "done" /\ runErr = NoErr


\* the hosts of an upload-config result collection whose result is not a
\* passing response that parses as a map with the field "destination"
UploadOffenders(rc) ==
    {h \in DOMAIN rc : ~(isPassing(rc[h]) /\ ParsesAsMap(rc[h].content)
                          /\ rc[h].content = "map_with_destination")}

\* the errors.Join calls that went into an error
JoinsIn(err) == {i \in 1..Len(err) : err[i].tag = "join"}

\* C13: the processResult of upload-config returns nil iff every result is
\* passing, parses as a JSON map and has the field "destination"; otherwise
\* its error joins exactly one error per offending host (the host's own error
\* when it is not passing); and every result is examined in either case.
C13_UploadAllMustPass ==
    (fnOut.done /\ fnIn.kind = "upload") =>
        /\ fnOut.err = NoErr <=> UploadOffenders(fnIn.rc) = {}
        /\ Cardinality(JoinsIn(fnOut.err)) = Cardinality(UploadOffenders(fnIn.rc))
        /\ \A h \in DOMAIN fnIn.rc :
              ~isPassing(fnIn.rc[h]) => fnIn.rc[h].err[1] \in Range(fnOut.err)
        /\ fnOut.examined = Len(fnOut.order)
        /\ fnOut.fileContent = fnIn.fileContent

\* a failing host is iterated first, then a passing host without "destination",
\* then a fully passing host: all three are examined, two errors are joined
C13_Witness ==
    /\ fnOut.done /\ fnIn.kind = "upload"
    /\ Len(fnOut.order) = NumHosts
    /\ ~isPassing(fnIn.rc[fnOut.order[1]])
    /\ fnIn.rc[fnOut.order[2]].content = "map"
    /\ \E i \in 3..NumHosts : fnIn.rc[fnOut.order[i]].content = "map_with_destination"
    /\ Cardinality(UploadOffenders(fnIn.rc)) = 2
    /\ Cardinality(JoinsIn(fnOut.err)) = 2
    /\ fnOut.examined = NumHosts


\* the processResult of the spread-security operation of the plan has run
SpreadResultsHandled == Len(plan) = 3 /\ plan[2].kind = "spread" /\ prLog.op = 2

\* C14: when the result of at least one target host of the spread-security
\* operation is not passing, its processResult returns a non-nil error, run()
\* stops with an error, and no later operation of the plan is called.
C14_SpreadAllMustPass ==
    (SpreadResultsHandled /\ \E h \in prLog.keys : ~isPassing(prLog.results[h])) =>
        /\ prLog.err # NoErr
        /\ pc = "done" /\ runErr # NoErr
        /\ \A k \in 1..Len(calls) : calls[k].op <= 2


\* the prepare of the spread-security operation of the plan has been called
SpreadPrepareCalled ==
    /\ Len(plan) = 3 /\ plan[2].kind = "spread"
    /\ \E k \in 1..Len(calls) : calls[k].phase = "prepare" /\ calls[k].op = 2

\* that prepare failed: the plan ended there, no request of the operation was
\* registered or sent, and no request body was kept
SpreadPrepareFailed ==
    /\ Last(calls).phase = "prepare" /\ Last(calls).op = 2 /\ Last(calls).ret # NoErr
    /\ pc = "done" /\ runErr # NoErr
    /\ DOMAIN ops[2].reqs = {}
    /\ bodies[2] = NoBodies
    /\ \A h \in Hosts : <<2, h>> \notin dispatched

\* C15: the prepare of spread-security fails, with nothing registered or
\* dispatched, for every key type other than "vertica", when
\* hostsWithLatestCatalog is empty, and when a target host has no catalog path.
C15_SpreadPrepareRejects ==
    SpreadPrepareCalled =>
        /\ plan[2].keyType # spreadKeyTypeVertica => SpreadPrepareFailed
        /\ Len(ctx.hostsWithLatestCatalog) = 0 => SpreadPrepareFailed
        /\ (\E h \in Range(ctx.hostsWithLatestCatalog) : h \notin ctx.nmaVDBHosts)
              => SpreadPrepareFailed
        /\ ~SpreadPrepareFailed => DOMAIN ops[2].reqs = Range(ctx.hostsWithLatestCatalog)

\* key type aws-kms with hosts and catalog paths in place: prepare fails with
\* "unsupported spread key type" and only the catalog read has sent requests
C15_Witness ==
    /\ SpreadPrepareCalled /\ plan[2].keyType = "aws-kms"
    /\ ctx.hostsWithLatestCatalog = <<1, 2>>
    /\ Last(calls).ret = NewErr("unsupported spread key type", 0, 0)
    /\ SpreadPrepareFailed
    /\ dispatched = {<<1, 1>>}


\* ------------------------------------------------- spread key and key id
spreadKeySize == 32
keyLength == 4

\* a string is a sequence of characters
availChars == <<"a", "b", "c", "d", "e", "f", "g", "h", "i", "j", "k", "l", "m", "n", "o", "p",
                "q", "r", "s", "t", "u", "v", "w", "x", "y", "z",
                "0", "1", "2", "3", "4", "5", "6", "7", "8", "9">>
hextable == <<"0", "1", "2", "3", "4", "5", "6", "7", "8", "9", "a", "b", "c", "d", "e", "f">>

\* a hex encoding that writes one character per byte
EncodeToStringOneDigit(bytes) ==
    [i \in 1..Len(bytes) |-> hextable[(bytes[i] % 16) + 1]]

\* hex.EncodeToString: two characters per byte, high nibble first
EncodeToString(bytes) ==
    [i \in 1..(2 * Len(bytes)) |->
        IF i % 2 = 1 THEN hextable[(bytes[(i + 1) \div 2] \div 16) + 1]
        ELSE hextable[(bytes[i \div 2] % 16) + 1]]

\* generateVerticaSpreadKey, given the bytes crypto/rand has read
generateVerticaSpreadKey(bytes) == EncodeToString(bytes)

\* generateKeyID, given the values rand.Intn(len(availChars)) returns
generateKeyID(picks) == [i \in 1..keyLength |-> availChars[picks[i] + 1]]

\* the outputs of the random sources explored: every value at every position,
\* in runs with a fixed stride between consecutive positions
ByteStrides == {0, 1, 37, 255}
RandomBytes(seed, stride) == [i \in 1..spreadKeySize |-> (seed + (i - 1) * stride) % 256]
RandomPicks(seed, stride) ==
    [i \in 1..keyLength |-> (seed + (i - 1) * stride) % Len(availChars)]

InitSpreadKey ==
    /\ fnIn \in {[fn |-> "key", rand |-> RandomBytes(seed, stride)] :
                    seed \in 0..255, stride \in ByteStrides}
          \cup {[fn |-> "id", rand |-> RandomPicks(seed, stride)] :
                    seed \in 0..(Len(availChars) - 1), stride \in 0..(Len(availChars) - 1)}
    /\ fnOut = <<>>
    /\ plan = <<>>
    /\ certs = Certs(FALSE, FALSE, FALSE)
    /\ pc = "generate"
    /\ idx = 0
    /\ ctx = EmptyCtx
    /\ ops = <<>>
    /\ results = NoResults
    /\ calls = <<>>
    /\ runErr = NoErr
    /\ pending = {}
    /\ inflight = {}
    /\ poolSize = 0
    /\ dispatched = {}
    /\ prLog = NoProcCall
    /\ fileContent = NoText
    /\ bodies = <<>>
    /\ log = {}
    /\ cmd = NotReturned
    /\ polls = 0

\* generateSecurityDetails calls generateKeyID and generateVerticaSpreadKey
GenerateCall ==
    /\ pc = "generate"
    /\ fnOut' = IF fnIn.fn = "key" THEN generateVerticaSpreadKey(fnIn.rand)
                ELSE generateKeyID(fnIn.rand)
    /\ pc' = "generated"
    /\ UNCHANGED <<plan, certs, idx, ctx, ops, results, calls, runErr>>
    /\ UNCHANGED dispatchVars
    /\ UNCHANGED dataVars
    /\ UNCHANGED fnIn

NextSpreadKey == GenerateCall

SpecSpreadKey == InitSpreadKey /\ [][NextSpreadKey]_vars

HexDigits == {"0", "1", "2", "3", "4", "5", "6", "7", "8", "9", "a", "b", "c", "d", "e", "f"}
LowerAlnum == {"a", "b", "c", "d", "e", "f", "g", "h", "i", "j", "k", "l", "m", "n", "o", "p",
               "q", "r", "s", "t", "u", "v", "w", "x", "y", "z",
               "0", "1", "2", "3", "4", "5", "6", "7", "8", "9"}

\* C16: every spread key generated has exactly 64 characters, all of them
\* hexadecimal digits, and every key id generated has exactly 4 characters,
\* each in [a-z0-9].
C16_KeyShape ==
    pc = "generated" =>
        IF fnIn.fn = "key"
        THEN Len(fnOut) = 64 /\ \A i \in 1..Len(fnOut) : fnOut[i] \in HexDigits
        ELSE Len(fnOut) = 4 /\ \A i \in 1..Len(fnOut) : fnOut[i] \in LowerAlnum

\* a key whose bytes run through 0xff, 0x00, 0x01: it starts "ff0001"
C16_Witness ==
    /\ pc = "generated" /\ fnIn.fn = "key"
    /\ fnIn.rand[1] = 255 /\ fnIn.rand[2] = 0
    /\ SubSeq(fnOut, 1, 6) = <<"f", "f", "0", "0", "0", "1">>
    /\ Len(fnOut) = 64


\* every spread key the operations handle: the keys spread-security can
\* generate and the key payload upload-config appends in encryptSpread mode
KeyMaterial == {r.key : r \in {x \in SpreadRandoms : x.ok}} \cup {spreadKeyPayload}

\* C17: no log entry written by the spread-security operation or by the
\* upload-config in encryptSpread mode contains spread key material.
C17_NoKeyInLog ==
    \A e \in log : \A i \in 1..Len(e.data) : e.data[i] \notin KeyMaterial


\* ------------------------------------------------------- node state polling
\* the polling-round counter is not counted beyond this number of rounds
MaxPolls == 3

\* the timeouts explored, in polling intervals; 0: wait forever
PollTimeouts == {0, 1, 2}

\* every target host reports its node as UP
NodesUp(rc) == \A h \in DOMAIN rc : isPassing(rc[h]) /\ rc[h].content = "node_up"

\* one polling round of poll-node-state over the collected results: whether the
\* polling stops, and with which error
PollNodeStateRound(rc) ==
    IF \E h \in DOMAIN rc : isPasswordAndCertificateError(rc[h])
    THEN [stop |-> TRUE, err |-> NewErr("wrong password/certificate for https service", 0, 0)]
    ELSE IF NodesUp(rc) THEN [stop |-> TRUE, err |-> NoErr]
    ELSE [stop |-> FALSE, err |-> NoErr]

TimeoutErr == NewErr("reached polling timeout", 0, 0)

\* a polling budget that is never used up
PollNeverTimesOut(timeout, done) == FALSE

\* the round that just ended was the last one the timeout allows
PollTimedOut(timeout, done) == timeout > 0 /\ done + 1 >= timeout

\* execute of a polling operation: a round of requests has been answered; the
\* polling stops with the outcome of the round, gives up on timeout, or sends
\* the requests again
PollRound ==
    /\ pc = "fanout"
    /\ plan[idx].kind \in PollKinds
    /\ sendRequestDone(pending, inflight)
    /\ LET out == PollNodeStateRound(results)
           over == ~out.stop /\ PollTimedOut(plan[idx].timeout, polls)
           err == IF out.stop THEN out.err ELSE IF over THEN TimeoutErr ELSE NoErr
           again == ~out.stop /\ ~over
       IN /\ polls' = IF polls < MaxPolls THEN polls + 1 ELSE polls
          /\ pending' = IF again THEN executeTargets(ops[idx]) ELSE pending
          /\ results' = IF again THEN NoResults ELSE results
          /\ prLog' = IF again THEN prLog
                      ELSE ProcCall(idx, ops[idx], results, pending, inflight, DOMAIN results, err)
          /\ calls' = IF again THEN calls ELSE [calls EXCEPT ![Len(calls)].ret = err]
          /\ runErr' = IF err # NoErr THEN WrapPhaseErr("execute", idx, err) ELSE runErr
          /\ pc' = IF again THEN "fanout" ELSE RunGoto("execute", err, FALSE, idx, Len(plan))
    /\ UNCHANGED <<plan, certs, idx, ctx, ops>>
    /\ UNCHANGED <<inflight, poolSize, dispatched>>
    /\ UNCHANGED fnVars
    /\ UNCHANGED <<fileContent, bodies, log, cmd>>

\* ------------------------------------------------------------------ start_db
\* a VStartDatabase that hands out a database description although run() failed
VStartDatabaseResultIgnoresRunError(err, vdbOk) ==
    [returned |-> TRUE, vdbNil |-> FALSE, err |-> NoErr, configWritten |-> FALSE]

\* VStartDatabase after clusterOpEngine.run returned err; vdbOk: whether the
\* database description could be fetched from the running database
VStartDatabaseResult(err, vdbOk) ==
    IF err # NoErr
    THEN [returned |-> TRUE, vdbNil |-> TRUE,
          err |-> Errorf("fail to start database: %w", 0, 0, err), configWritten |-> FALSE]
    ELSE IF ~vdbOk
         THEN [returned |-> TRUE, vdbNil |-> TRUE,
               err |-> NewErr("getVDBFromRunningDBIncludeSandbox", 0, 0), configWritten |-> FALSE]
         ELSE [returned |-> TRUE, vdbNil |-> FALSE, err |-> NoErr, configWritten |-> FALSE]

VStartDatabaseReturn ==
    /\ pc = "done"
    /\ ~cmd.returned
    /\ \E vdbOk \in BOOLEAN : cmd' = VStartDatabaseResult(runErr, vdbOk)
    /\ UNCHANGED engineVars
    /\ UNCHANGED dispatchVars
    /\ UNCHANGED fnVars
    /\ UNCHANGED <<fileContent, bodies, log, polls>>

\* the tail of the start_db plan: start-nodes, poll-node-state, sync-catalog
StartDBPlans ==
    {<<StubOp(<<1>>, NoPublish), PollNodeStateOp(AllHosts, t), StubOp(<<1>>, NoPublish)>> :
        t \in PollTimeouts}

InitStartDB ==
    /\ plan \in StartDBPlans
    /\ certs \in CertChoices
    /\ pc = "start"
    /\ idx = 0
    /\ ctx = EmptyCtx
    /\ ops = [i \in 1..Len(plan) |-> FreshOpState]
    /\ results = NoResults
    /\ calls = <<>>
    /\ runErr = NoErr
    /\ pending = {}
    /\ inflight = {}
    /\ poolSize = 0
    /\ dispatched = {}
    /\ prLog = NoProcCall
    /\ fnIn = 0
    /\ fnOut = 0
    /\ fileContent = NoText
    /\ bodies = [i \in 1..Len(plan) |-> NoBodies]
    /\ log = {}
    /\ cmd = NotReturned
    /\ polls = 0

NextStartDB ==
    \/ RunStart
    \/ Prepare
    \/ LoadCerts
    \/ ExecuteStart
    \/ WorkerStart
    \/ HostReturn
    \/ ExecuteReturn
    \/ PollRound
    \/ Finalize
    \/ VStartDatabaseReturn

SpecStartDB == InitStartDB /\ [][NextStartDB]_vars

\* the polling of the poll-node-state operation of the plan has ended
PollEnded == Len(plan) = 3 /\ plan[2].kind = "pollnode" /\ prLog.op = 2

\* C18: poll-node-state returns success iff, in a polling round within the
\* timeout window, every target host has reported UP; when the window ends
\* with some target host not UP it returns the timeout error; it never polls
\* beyond the window.
C18_PollNodeState ==
    /\ (pc = "fanout" /\ plan[idx].kind = "pollnode" /\ plan[idx].timeout > 0)
          => polls < plan[idx].timeout
    /\ PollEnded =>
          /\ prLog.keys = Range(plan[2].hosts)
          /\ prLog.err = NoErr <=> NodesUp(prLog.results)
          /\ plan[2].timeout > 0 => polls <= plan[2].timeout
          /\ (~NodesUp(prLog.results) /\ PollNodeStateRound(prLog.results).err = NoErr) =>
                /\ plan[2].timeout > 0 /\ polls = plan[2].timeout
                /\ prLog.err = TimeoutErr

\* with a window of two rounds, the polling succeeded in the second round
C18_Witness ==
    /\ PollEnded /\ plan[2].timeout = 2 /\ polls = 2
    /\ prLog.err = NoErr /\ NodesUp(prLog.results)
    /\ prLog.keys = Hosts

\* the poll-node-state operation of the plan ran out of its timeout
PollTimedOutRun == PollEnded /\ prLog.err = TimeoutErr

\* C19: in start_db, when poll-node-state exhausts its timeout, run() fails,
\* sync-catalog gets no call and no request, and VStartDatabase returns a nil
\* database description and a non-nil error that wraps the timeout error; no
\* config file is written.
C19_StartDBTimeout ==
    PollTimedOutRun =>
        /\ pc = "done" /\ runErr # NoErr
        /\ \A k \in 1..Len(calls) : calls[k].op <= 2
        /\ \A h \in Hosts : <<3, h>> \notin dispatched
        /\ ~cmd.configWritten
        /\ cmd.returned =>
              /\ cmd.vdbNil /\ cmd.err # NoErr
              /\ Unwrap(Unwrap(cmd.err)) = TimeoutErr

\* host 1 is UP and another host is not when the window of two rounds ends;
\* VStartDatabase has returned the error
C19_Witness ==
    /\ PollTimedOutRun /\ plan[2].timeout = 2
    /\ prLog.results[1].content = "node_up"
    /\ \E h \in prLog.keys : prLog.results[h].content = "node_down"
    /\ cmd.returned /\ cmd.vdbNil /\ cmd.err # NoErr


\* ---------------------------------------------- subscription polling, claims
\* a polling round of poll-subscription-state has been evaluated
PollSubRound == fnOut.done /\ fnIn.kind = "pollsub"

\* every subscription listed by a response is ACTIVE
AllActive(content) ==
    \A k \in 1..Len(SubscriptionStates(content)) : SubscriptionStates(content)[k] = "ACTIVE"

\* the positions of an iteration order whose result decides the round: a
\* passing result or a wrong password/certificate result
DecisiveAt(rc, order) ==
    {i \in 1..Len(order) :
        isPassing(rc[order[i]]) \/ isPasswordAndCertificateError(rc[order[i]])}

\* the result the round stopped at, when it stopped at one
ExaminedResult == fnIn.rc[fnOut.order[fnOut.examined]]

\* C20 as stated: a round ends the polling with success only at a passing
\* response that lists every subscription as ACTIVE; a round whose examined
\* passing response has a subscription that is not ACTIVE does not end with
\* success; a round with an empty result collection or no passing host
\* continues polling.
C20_PollSubscription ==
    PollSubRound =>
        /\ (fnOut.stop /\ fnOut.err = NoErr) =>
              /\ fnOut.examined \in PassingAt(fnIn.rc, fnOut.order)
              /\ AllActive(ExaminedResult.content)
        /\ (fnOut.examined \in PassingAt(fnIn.rc, fnOut.order)
              /\ ~AllActive(ExaminedResult.content)) => ~(fnOut.stop /\ fnOut.err = NoErr)
        /\ PassingHosts(fnIn.rc) = {} => ~fnOut.stop

\* C20: a polling round is decided by the first result in iteration order
\* that is passing or is a wrong password/certificate error: with no such
\* result (an empty collection included) the polling continues; a wrong
\* password/certificate result ends the polling with an error; a passing
\* response that does not parse ends it with an error; a passing response
\* with a subscription that is not ACTIVE continues the polling; a passing
\* response whose subscriptions are all ACTIVE ends it with success.
C20_PollSubscriptionDecisive ==
    PollSubRound =>
        LET at == DecisiveAt(fnIn.rc, fnOut.order)
        IN IF at = {} THEN ~fnOut.stop /\ fnOut.err = NoErr
           ELSE LET i == CHOOSE j \in at : \A k \in at : j <= k
                    r == fnIn.rc[fnOut.order[i]]
                IN /\ fnOut.examined = i
                   /\ isPasswordAndCertificateError(r) => fnOut.stop /\ fnOut.err # NoErr
                   /\ (isPassing(r) /\ r.content = "not_json") => fnOut.stop /\ fnOut.err # NoErr
                   /\ (isPassing(r) /\ r.content # "not_json" /\ ~AllActive(r.content))
                         => ~fnOut.stop /\ fnOut.err = NoErr
                   /\ (isPassing(r) /\ r.content # "not_json" /\ AllActive(r.content))
                         => fnOut.stop /\ fnOut.err = NoErr

\* no host passed and a host answered "Wrong password": the polling ended
\* with an error; another host's 401 of a different kind had been skipped
C20_Witness ==
    /\ PollSubRound
    /\ PassingHosts(fnIn.rc) = {}
    /\ fnOut.stop /\ fnOut.err # NoErr
    /\ fnOut.examined = 2
    /\ isUnauthorizedRequest(fnIn.rc[fnOut.order[1]])


\* ------------------------------------------- credential errors while polling
\* a 401 result whose content is one of the wrong-credential messages
CredentialErrorAt(rc, order) ==
    {i \in 1..Len(order) :
        /\ rc[order[i]].statusCode = UnauthorizedCode
        /\ rc[order[i]].content \in {"Wrong password", "Wrong certificate"}}

\* the round ended with the wrong password/certificate error
EndedWithCredentialError ==
    /\ fnOut.stop
    /\ fnOut.err # NoErr
    /\ fnOut.err[1].tag = "wrong password/certificate for https service on host"

\* C21 as stated: a wrong password/certificate result of any host ends the
\* polling in that round with an error, whatever the other hosts returned and
\* in whatever order the results are iterated.
C21_CredentialErrorAborts ==
    (PollSubRound /\ CredentialErrorAt(fnIn.rc, fnOut.order) # {}) => EndedWithCredentialError

\* C21: in poll-node-state a wrong password/certificate result of any host
\* ends the polling in that round with an error, whatever the other hosts
\* returned and in whatever order the results are iterated. In
\* poll-subscription-state it does so when it is iterated before every passing
\* result; when a passing result is iterated first, that result alone decides
\* the round and the credential error is not examined; and a round ends with
\* the wrong password/certificate error only at such a result.
C21_CredentialErrorBeforePassing ==
    PollSubRound =>
        LET cred == CredentialErrorAt(fnIn.rc, fnOut.order)
            pass == PassingAt(fnIn.rc, fnOut.order)
            nodeState == PollNodeStateRound(fnIn.rc)
        IN /\ cred # {} => (nodeState.stop /\ nodeState.err # NoErr)
           /\ (cred # {} /\ \E i \in cred : \A j \in pass : i < j) =>
                 /\ EndedWithCredentialError
                 /\ fnOut.examined \in cred
                 /\ \A i \in cred : fnOut.examined <= i
                 /\ fnOut.err = NewErr("wrong password/certificate for https service on host",
                                       fnOut.order[fnOut.examined], 0)
           /\ (cred # {} /\ \E j \in pass : \A i \in cred : j < i) =>
                 /\ ~EndedWithCredentialError
                 /\ fnOut.examined \in pass
                 /\ \A i \in cred : fnOut.examined < i
           /\ EndedWithCredentialError => fnOut.examined \in cred

\* a host answered "Wrong password" and another host, iterated first, passed
\* with a subscription that is not ACTIVE: the polling goes on
C21_Witness ==
    /\ PollSubRound
    /\ CredentialErrorAt(fnIn.rc, fnOut.order) # {}
    /\ fnOut.examined = 1
    /\ isPassing(fnIn.rc[fnOut.order[1]])
    /\ ~fnOut.stop /\ fnOut.err = NoErr


\* ------------------------------------------- catalog-editor read, consumers
\* the engine before run() is called, for a plan of the given set
InitPlans(P) ==
    /\ plan \in P
    /\ certs \in CertChoices
    /\ pc = "start"
    /\ idx = 0
    /\ ctx = EmptyCtx
    /\ ops = [i \in 1..Len(plan) |-> FreshOpState]
    /\ results = NoResults
    /\ calls = <<>>
    /\ runErr = NoErr
    /\ pending = {}
    /\ inflight = {}
    /\ poolSize = 0
    /\ dispatched = {}
    /\ prLog = NoProcCall
    /\ fnIn = 0
    /\ fnOut = 0
    /\ fileContent = NoText
    /\ bodies = [i \in 1..Len(plan) |-> NoBodies]
    /\ log = {}
    /\ cmd = NotReturned
    /\ polls = 0

\* a catalog-editor read followed by an operation that consumes
\* hostsWithLatestCatalog
CatalogPlans ==
    {<<ReadCatalogEditorOp(AllHosts), consumer>> :
        consumer \in {UploadOp(TRUE, <<>>, AllHosts, {}), SpreadSecurityOp("vertica")}}

InitCatalog == InitPlans(CatalogPlans)

SpecCatalog == InitCatalog /\ [][Next]_vars

\* the catalog-editor read of the plan has published
CatalogPublished ==
    /\ Len(plan) = 2 /\ plan[1].kind = "readcatalog"
    /\ \E k \in 1..Len(calls) : calls[k].phase = "finalize" /\ calls[k].op = 1

\* the results of the catalog-editor read are still in place: no later
\* operation has been executed
CatalogResultsInPlace == \A k \in 1..Len(calls) : ~(calls[k].op = 2 /\ calls[k].phase = "execute")

\* C22: the hostsWithLatestCatalog published by the catalog-editor read is
\* non-empty whenever a host returned a valid catalog, holds exactly the hosts
\* that report the maximum catalog version, in ascending host order; an
\* upload-config or spread-security that consumes an empty
\* hostsWithLatestCatalog fails in prepare and sends nothing.
C22_LatestCatalogHosts ==
    CatalogPublished =>
        /\ CatalogResultsInPlace =>
              LET valid == {h \in DOMAIN results : results[h].statusCode = SuccessCode
                                /\ results[h].content \in {"catalog_v1", "catalog_v2"}}
                  latest == ctx.hostsWithLatestCatalog
              IN /\ valid # {} => latest # <<>>
                 /\ Range(latest) \subseteq valid
                 /\ \A h \in valid :
                       h \in Range(latest) <=>
                          (results[h].content = "catalog_v2"
                             \/ \A k \in valid : results[k].content = "catalog_v1")
                 /\ \A i, j \in 1..Len(latest) : i < j => latest[i] < latest[j]
        /\ ctx.hostsWithLatestCatalog = <<>> =>
              /\ \A k \in 1..Len(calls) :
                    (calls[k].op = 2 /\ calls[k].phase = "prepare") => calls[k].ret # NoErr
              /\ \A h \in Hosts : <<2, h>> \notin dispatched
              /\ \A k \in 1..Len(calls) : calls[k].op = 2 => calls[k].phase = "prepare"

\* hosts 1 and 3 report version 2 and host 2 reports version 1: hosts 1 and 3
\* are published and the consumer has been prepared
C22_Witness ==
    /\ CatalogPublished
    /\ ctx.hostsWithLatestCatalog = <<1, NumHosts>>
    /\ \E k \in 1..Len(calls) : calls[k].op = 2 /\ calls[k].phase = "prepare" /\ calls[k].ret = NoErr
    /\ pc = "execute"
    /\ results[2].content = "catalog_v1"


\* ------------------------------------------------------ sandbox initiator
\* what a subcluster-aware up-node probe publishes: the up hosts, and the up
\* hosts outside the target subcluster and outside every sandbox
SandboxPublish(up, candidates) ==
    [Publish({}, Hosts, up) EXCEPT !.sandboxingHosts = SetToSeq(candidates)]

\* an up-node probe followed by the sandbox operation
SandboxPlans ==
    {<<StubOp(<<1>>, SandboxPublish(Hosts, candidates)), SandboxOp>> :
        candidates \in SUBSET Hosts}

InitSandbox == InitPlans(SandboxPlans)

SpecSandbox == InitSandbox /\ [][Next]_vars

\* the hosts the sandbox POST was handed to a worker for
SandboxRequests == {h \in Hosts : <<2, h>> \in dispatched}

\* the sandbox operation of the plan has been prepared
SandboxPrepared ==
    /\ Len(plan) = 2 /\ plan[2].kind = "sandbox"
    /\ \E k \in 1..Len(calls) : calls[k].op = 2 /\ calls[k].phase = "prepare"

\* no request is sent when no candidate host was published
SandboxNoCandidate ==
    ctx.sandboxingHosts = <<>> =>
        /\ \A k \in 1..Len(calls) : calls[k].op = 2 =>
              calls[k].phase = "prepare" /\ calls[k].ret # NoErr
        /\ SandboxRequests = {}

\* C23 as stated: the sandbox POST is sent to exactly one host, chosen among
\* the hosts of sandboxingHosts; without such a host prepare fails and no
\* request is sent.
C23_SingleInitiator ==
    SandboxPrepared =>
        /\ Cardinality(SandboxRequests) <= 1
        /\ SandboxRequests \subseteq Range(ctx.sandboxingHosts)
        /\ prLog.op = 2 => Cardinality(prLog.keys) = 1
        /\ SandboxNoCandidate

\* C23: the sandbox POST is sent to every host of sandboxingHosts, one request
\* per host, and to no other host; without such a host prepare fails and no
\* request is sent.
C23_EverySandboxingHost ==
    SandboxPrepared =>
        /\ SandboxRequests \subseteq Range(ctx.sandboxingHosts)
        /\ DOMAIN ops[2].reqs \subseteq Range(ctx.sandboxingHosts)
        /\ prLog.op = 2 =>
              /\ prLog.keys = Range(ctx.sandboxingHosts)
              /\ SandboxRequests = Range(ctx.sandboxingHosts)
              /\ prLog.keys # {}
        /\ SandboxNoCandidate

\* two candidate hosts were published and the POST went to both
C23_Witness ==
    /\ SandboxPrepared
    /\ ctx.sandboxingHosts = <<1, 2>>
    /\ prLog.op = 2
    /\ SandboxRequests = {1, 2}
    /\ prLog.keys = {1, 2}


\* --------------------------------------------------- check-subcluster, plan
\* an up-node probe, the check of the subcluster, and a later operation
CheckSubclusterPlans ==
    {<<StubOp(<<1>>, Publish({}, Hosts, up)), CheckSubclusterOp, StubOp(<<1>>, NoPublish)>> :
        up \in {Hosts, {1, 2}, {2}, {}}}

InitCheckSubcluster == InitPlans(CheckSubclusterPlans)

SpecCheckSubcluster == InitCheckSubcluster /\ [][Next]_vars

\* the processResult of the check-subcluster operation of the plan has returned
CheckSubclusterHandled == Len(plan) = 3 /\ plan[2].kind = "checksc" /\ prLog.op = 2

\* the examined results that are passing
ExaminedPassing == {h \in prLog.examined : prLog.results[h].statusCode = SuccessCode}

\* C24: check-subcluster stops at the first passing result: it succeeds only
\* if that response reports the expected subcluster name, is_secondary and
\* control set size; an examined passing response that differs in one of the
\* three makes it fail; when no host passes it returns an error; and its
\* failure ends the plan: no later operation is called.
C24_CheckSubcluster ==
    CheckSubclusterHandled =>
        /\ Cardinality(ExaminedPassing) <= 1
        /\ prLog.err = NoErr =>
              \E h \in ExaminedPassing : prLog.results[h].content = "sc_match"
        /\ (\E h \in ExaminedPassing : prLog.results[h].content # "sc_match") => prLog.err # NoErr
        /\ (\A h \in prLog.keys : prLog.results[h].statusCode # SuccessCode) => prLog.err # NoErr
        /\ prLog.err # NoErr =>
              /\ pc = "done" /\ runErr # NoErr
              /\ Unwrap(runErr) = prLog.err
              /\ \A k \in 1..Len(calls) : calls[k].op <= 2

\* a host failed with 500 and was passed over, the next host passed with a
\* primary subcluster where a secondary was expected: the plan ended there
C24_Witness ==
    /\ CheckSubclusterHandled
    /\ Cardinality(prLog.examined) = 2
    /\ \E h \in prLog.examined : prLog.results[h].statusCode = InternalErrorCode
    /\ \E h \in ExaminedPassing : prLog.results[h].content = "sc_wrong_secondary"
    /\ pc = "done" /\ runErr # NoErr


\* --------------------------------------------------------- command producers
\* an instruction of a plan: the operation and the hosts it was made for
PlanOp(name, hosts) == [op |-> name, hosts |-> hosts]

\* the names of the operations of a plan, in plan order
OpNames(p) == [i \in 1..Len(p) |-> p[i].op]

\* produceTransferConfigOps: download-config, then upload-config
produceTransferConfigOps(hosts) ==
    <<PlanOp("download_config", <<>>), PlanOp("upload_config", hosts)>>

\* produceStartDBPreCheck
produceStartDBPreCheck(o) ==
    <<PlanOp("nma_health", o.hosts), PlanOp("check_running_db", o.hosts)>>
    \o (IF o.vdbEmpty THEN <<PlanOp("get_nodes_info", o.hosts)>> ELSE <<>>)
    \o (IF o.trimHostList THEN <<PlanOp("read_catalog_editor", <<>>)>> ELSE <<>>)

\* a start_db plan that syncs the catalog before the nodes are started
produceStartDBInstructionsSyncFirst(o) ==
    <<PlanOp("read_catalog_editor", <<>>), PlanOp("vertica_version", o.hosts)>>
    \o (IF o.isEon THEN <<PlanOp("sync_catalog", o.hosts)>> ELSE <<>>)
    \o produceTransferConfigOps(o.hosts)
    \o <<PlanOp("start_node", o.hosts), PlanOp("poll_node_state", o.hosts)>>

\* produceStartDBInstructions
produceStartDBInstructions(o) ==
    <<PlanOp("read_catalog_editor", <<>>), PlanOp("vertica_version", o.hosts)>>
    \o (IF o.spreadEncryption THEN <<PlanOp("spread_security", <<>>)>> ELSE <<>>)
    \o produceTransferConfigOps(o.hosts)
    \o <<PlanOp("start_node", o.hosts), PlanOp("poll_node_state", o.hosts)>>
    \o (IF o.isEon THEN <<PlanOp("sync_catalog", o.hosts)>> ELSE <<>>)


\* a drop_db plan that deletes the directories first
produceDropDBInstructionsDeleteFirst(o) ==
    <<PlanOp("delete_directories", o.hosts), PlanOp("nma_health", o.hosts),
      PlanOp("check_running_db", o.hosts)>>

\* produceDropDBInstructions
produceDropDBInstructions(o) ==
    <<PlanOp("nma_health", o.hosts), PlanOp("check_running_db", o.hosts),
      PlanOp("delete_directories", o.hosts)>>

\* prepareAdditionalEonInstructions
prepareAdditionalEonInstructions(o) ==
    (IF o.useDepot THEN <<PlanOp("create_depot", o.newHosts)>> ELSE <<>>)
    \o (IF o.isEon
        THEN <<PlanOp("sync_catalog", o.initiator)>>
             \o (IF ~o.skipRebalanceShards THEN <<PlanOp("rebalance_shards", o.initiator)>>
                 ELSE <<>>)
        ELSE <<>>)

\* the head of the add_node plan, up to poll-node-state; find-subcluster is
\* made for the hosts of the vdb that are not new
AddNodeHead(o) ==
    <<PlanOp("nma_health", o.hosts)>>
    \o (IF o.isEon THEN <<PlanOp("find_subcluster", SliceDiff(o.hosts, o.newHosts))>> ELSE <<>>)
    \o <<PlanOp("vertica_version", o.hosts),
         PlanOp("prepare_directories", o.newHosts),
         PlanOp("network_profile", o.hosts),
         PlanOp("create_node", o.newHosts),
         PlanOp("reload_spread", o.initiator),
         PlanOp("startup_command", <<>>)>>
    \o produceTransferConfigOps(o.hosts)
    \o <<PlanOp("start_node", o.newHosts), PlanOp("poll_node_state", o.newHosts)>>

\* produceAddNodeInstructions
produceAddNodeInstructions(o) == AddNodeHead(o) \o prepareAdditionalEonInstructions(o)

\* restart_node: the catalog address of node n is n; a node that moved is
\* requested with the address n + NumHosts; node name 0 is not in the catalog
CatalogAddress == [n \in Hosts |-> n]
MovedAddress(n) == n + NumHosts

\* VRestartNodesInfo, and whether every requested node name was found
RestartInfo(found, reIP, names, noNeed) ==
    [found |-> found, ReIPList |-> reIP, NodeNamesToRestart |-> names,
     HostsToRestart |-> IF Len(reIP) # 0 THEN reIP ELSE noNeed,
     hostsNoNeedToReIP |-> noNeed]

\* a restart analysis that restarts every requested host
RECURSIVE VRestartNodesLoopRestartAll(_, _, _, _, _, _)
VRestartNodesLoopRestartAll(nodes, order, i, reIP, names, noNeed) ==
    IF i > Len(order)
    THEN [RestartInfo(TRUE, reIP, names, noNeed) EXCEPT !.HostsToRestart = reIP \o noNeed]
    ELSE LET nodename == order[i]
             newIP == nodes[nodename]
         IN IF nodename \notin DOMAIN CatalogAddress
            THEN RestartInfo(FALSE, reIP, names, noNeed)
            ELSE IF CatalogAddress[nodename] # newIP
                 THEN VRestartNodesLoopRestartAll(nodes, order, i + 1, Append(reIP, newIP),
                                                  Append(names, nodename), noNeed)
                 ELSE VRestartNodesLoopRestartAll(nodes, order, i + 1, reIP, names,
                                                  Append(noNeed, newIP))

\* VRestartNodes: the loop over options.Nodes that fills the re-IP list
RECURSIVE VRestartNodesLoop(_, _, _, _, _, _)
VRestartNodesLoop(nodes, order, i, reIP, names, noNeed) ==
    IF i > Len(order) THEN RestartInfo(TRUE, reIP, names, noNeed)
    ELSE LET nodename == order[i]
             newIP == nodes[nodename]
         IN IF nodename \notin DOMAIN CatalogAddress
            THEN RestartInfo(FALSE, reIP, names, noNeed)
            ELSE IF CatalogAddress[nodename] # newIP
                 THEN VRestartNodesLoop(nodes, order, i + 1, Append(reIP, newIP),
                                        Append(names, nodename), noNeed)
                 ELSE VRestartNodesLoop(nodes, order, i + 1, reIP, names, Append(noNeed, newIP))

\* a restart_node plan without the refresh of the node information after re-IP
produceRestartNodesInstructionsNoRefresh(info, o) ==
    <<PlanOp("nma_health", o.hosts), PlanOp("vertica_version", o.hosts),
      PlanOp("get_up_nodes", o.hosts)>>
    \o (IF Len(info.ReIPList) # 0
        THEN <<PlanOp("network_profile", info.HostsToRestart),
               PlanOp("re_ip", info.HostsToRestart),
               PlanOp("reload_spread", <<>>)>>
        ELSE <<>>)
    \o produceTransferConfigOps(info.HostsToRestart)
    \o <<PlanOp("restart_up_command", <<>>),
         PlanOp("start_node", info.HostsToRestart),
         PlanOp("poll_node_state", info.HostsToRestart)>>
    \o (IF o.isEon THEN <<PlanOp("sync_catalog", o.hosts)>> ELSE <<>>)

\* produceRestartNodesInstructions
produceRestartNodesInstructions(info, o) ==
    <<PlanOp("nma_health", o.hosts), PlanOp("vertica_version", o.hosts),
      PlanOp("get_up_nodes", o.hosts)>>
    \o (IF Len(info.ReIPList) # 0
        THEN <<PlanOp("network_profile", info.HostsToRestart),
               PlanOp("re_ip", info.HostsToRestart),
               PlanOp("reload_spread", <<>>),
               PlanOp("get_nodes_info", o.hosts)>>
        ELSE <<>>)
    \o produceTransferConfigOps(info.HostsToRestart)
    \o <<PlanOp("restart_up_command", <<>>),
         PlanOp("start_node", info.HostsToRestart),
         PlanOp("poll_node_state", info.HostsToRestart)>>
    \o (IF o.isEon THEN <<PlanOp("sync_catalog", o.hosts)>> ELSE <<>>)


\* produceAddNodeInstructions of the add-node API that takes a bootstrap host
produceAddNodeInstructionsBootstrap(o) ==
    <<PlanOp("nma_health", o.initiator \o o.hosts),
      PlanOp("nma_vertica_version", o.initiator \o o.hosts)>>

\* produceSandboxSubclusterInstructions
produceSandboxSubclusterInstructions(o) ==
    <<PlanOp("get_up_sc_nodes", o.hosts), PlanOp("check_subcluster_sandbox", o.hosts),
      PlanOp("sandbox_subcluster", <<>>), PlanOp("poll_subcluster_node_state", <<>>)>>

\* produceInstallPackagesInstructions
produceInstallPackagesInstructions(o) ==
    <<PlanOp("get_up_nodes", o.hosts), PlanOp("install_packages", <<>>)>>

\* ------------------------------------------------------ commands as plans
\* the options of a command that select the shape of its plans
NoNodes == [n \in {} |-> 0]
Options(command, hosts) ==
    [cmd |-> command, hosts |-> hosts, newHosts |-> <<>>, initiator |-> <<>>,
     vdbEmpty |-> FALSE, trimHostList |-> FALSE, spreadEncryption |-> FALSE,
     isEon |-> FALSE, useDepot |-> FALSE, skipRebalanceShards |-> FALSE,
     forceDelete |-> FALSE, nodes |-> NoNodes, invalid |-> FALSE]

NoRestartInfo == RestartInfo(TRUE, <<>>, <<>>, <<>>)

\* a command that has not started: no engine was made, nothing has run
CommandNotStarted ==
    [stage |-> 0, plan |-> <<>>, pos |-> 0, trace |-> <<>>, failed |-> FALSE,
     returned |-> FALSE, err |-> FALSE, configRemoved |-> FALSE, info |-> NoRestartInfo]

\* removeHostsNotInCatalog: the hosts of the list that the catalog knows
removeHostsNotInCatalog(nmaVDBHosts, hosts) == SelectSeq(hosts, LAMBDA h : h \in nmaVDBHosts)

\* runStartDBPrecheck after its run returned: with TrimHostList the hosts of
\* the options are trimmed by the vdb the pre-check run left in its context
PrecheckHosts(options, c) ==
    IF options.trimHostList THEN removeHostsNotInCatalog(c.nmaVDBHosts, options.hosts)
    ELSE options.hosts

\* the engines a command runs one after the other
NumStages(command) == IF command = "start_db" THEN 2 ELSE 1

\* the instructions the command produces for its next engine
StagePlan(o, stage, info) ==
    IF o.cmd = "start_db"
    THEN IF stage = 1 THEN produceStartDBPreCheck(o) ELSE produceStartDBInstructions(o)
    ELSE IF o.cmd = "drop_db" THEN produceDropDBInstructions(o)
    ELSE IF o.cmd = "add_node" THEN produceAddNodeInstructions(o)
    ELSE IF o.cmd = "add_node_bootstrap" THEN produceAddNodeInstructionsBootstrap(o)
    ELSE IF o.cmd = "sandbox" THEN produceSandboxSubclusterInstructions(o)
    ELSE IF o.cmd = "install_packages" THEN produceInstallPackagesInstructions(o)
    ELSE produceRestartNodesInstructions(info, o)

\* the command before its first step, with the options drawn from O
InitCommand(O) ==
    /\ fnIn \in O
    /\ fnOut = CommandNotStarted
    /\ plan = <<>>
    /\ certs = Certs(FALSE, FALSE, FALSE)
    /\ pc = "command"
    /\ idx = 0
    /\ ctx = EmptyCtx
    /\ ops = <<>>
    /\ results = NoResults
    /\ calls = <<>>
    /\ runErr = NoErr
    /\ pending = {}
    /\ inflight = {}
    /\ poolSize = 0
    /\ dispatched = {}
    /\ prLog = NoProcCall
    /\ fileContent = NoText
    /\ bodies = <<>>
    /\ log = {}
    /\ cmd = NotReturned
    /\ polls = 0

\* the hosts the host-node map of the vdb holds that the catalog read of the
\* pre-check left in its context
PrecheckCatalogs == {Hosts, Hosts \ {NumHosts}, {}}

\* the command analyses its input and produces the instructions of its next
\* engine; restart_node returns when a requested node name is not in the
\* catalog; start_db, with TrimHostList, first trims the hosts of its options
\* by the catalog the pre-check engine left in its context
CmdProduce ==
    /\ pc = "command"
    /\ ~fnOut.returned /\ ~fnOut.failed
    /\ fnOut.stage < NumStages(fnIn.cmd)
    /\ fnOut.pos = Len(fnOut.plan)
    /\ \E order \in Orders(DOMAIN fnIn.nodes), inCatalog \in PrecheckCatalogs :
         LET info == IF fnIn.cmd = "restart_node"
                     THEN VRestartNodesLoop(fnIn.nodes, order, 1, <<>>, <<>>, <<>>)
                     ELSE NoRestartInfo
             c == [EmptyCtx EXCEPT !.nmaVDBHosts = inCatalog]
             options == IF fnIn.cmd = "start_db" /\ fnOut.stage = 1
                        THEN [fnIn EXCEPT !.hosts = PrecheckHosts(fnIn, c)]
                        ELSE fnIn
         IN /\ fnIn' = options
            /\ fnOut' = IF ~info.found
                        THEN [fnOut EXCEPT !.returned = TRUE, !.info = info]
                        ELSE [fnOut EXCEPT !.stage = fnOut.stage + 1,
                                           !.plan = StagePlan(options, fnOut.stage + 1, info),
                                           !.pos = 0, !.info = info]
    /\ UNCHANGED engineVars
    /\ UNCHANGED dispatchVars
    /\ UNCHANGED dataVars

\* the engine runs the next instruction of the plan; it stops at a failure
CmdRunOp ==
    /\ pc = "command"
    /\ fnOut.stage >= 1 /\ ~fnOut.failed /\ ~fnOut.returned
    /\ fnOut.pos < Len(fnOut.plan)
    /\ \E ok \in BOOLEAN :
         LET op == fnOut.plan[fnOut.pos + 1]
             entry == [stage |-> fnOut.stage, op |-> op.op, hosts |-> op.hosts, ok |-> ok]
         IN fnOut' = [fnOut EXCEPT !.trace = Append(fnOut.trace, entry),
                                   !.pos = IF ok THEN fnOut.pos + 1 ELSE fnOut.pos,
                                   !.failed = ~ok]
    /\ UNCHANGED fnIn
    /\ UNCHANGED engineVars
    /\ UNCHANGED dispatchVars
    /\ UNCHANGED dataVars

\* the command returns: with the error of the failed engine, or after its last
\* engine; drop_db then removes the database from the config file; start_db
\* then fetches the vdb from the running database and returns the error of
\* that fetch
CmdReturn ==
    /\ pc = "command"
    /\ ~fnOut.returned
    /\ fnOut.failed \/ (fnOut.stage = NumStages(fnIn.cmd) /\ fnOut.pos = Len(fnOut.plan))
    /\ \E removeOk \in BOOLEAN, fetchOk \in BOOLEAN :
         fnOut' = [fnOut EXCEPT !.returned = TRUE,
                                !.err = \/ fnOut.failed
                                        \/ (fnIn.cmd = "start_db" /\ ~fetchOk),
                                !.configRemoved = (fnIn.cmd = "drop_db" /\ ~fnOut.failed /\ removeOk)]
    /\ UNCHANGED fnIn
    /\ UNCHANGED engineVars
    /\ UNCHANGED dispatchVars
    /\ UNCHANGED dataVars

NextCommand ==
    \/ CmdProduce
    \/ CmdRunOp
    \/ CmdReturn

\* start_db
StartDBOptions ==
    {[Options("start_db", AllHosts) EXCEPT !.vdbEmpty = e, !.trimHostList = t,
                                           !.spreadEncryption = s, !.isEon = eon] :
        e \in BOOLEAN, t \in BOOLEAN, s \in BOOLEAN, eon \in BOOLEAN}

InitStartDBPlan == InitCommand(StartDBOptions)

SpecStartDBPlan == InitStartDBPlan /\ [][NextCommand]_vars

\* the operations an engine of the command has run, failed one included
Ran(stage) == SelectSeq(fnOut.trace, LAMBDA e : e.stage = stage)

\* the operations of the whole command that returned without error
RanOk == SelectSeq(fnOut.trace, LAMBDA e : e.ok)

\* C25: start_db runs the pre-plan health, check-running-DB, get-nodes (only
\* with an empty vdb), read-catalog-editor (only when trimming); the main plan
\* runs only after the whole pre-plan succeeded and is read-catalog-editor,
\* version, spread-security (only with spread encryption), download-config,
\* upload-config, start-nodes, poll-node-state, and sync-catalog last and only
\* for Eon; the consumers of hostsWithLatestCatalog run after the
\* read-catalog-editor of the main plan.
C25_StartDBOrder ==
    fnIn.cmd = "start_db" =>
        LET pre == <<"nma_health", "check_running_db">>
                   \o (IF fnIn.vdbEmpty THEN <<"get_nodes_info">> ELSE <<>>)
                   \o (IF fnIn.trimHostList THEN <<"read_catalog_editor">> ELSE <<>>)
            main == <<"read_catalog_editor", "vertica_version">>
                    \o (IF fnIn.spreadEncryption THEN <<"spread_security">> ELSE <<>>)
                    \o <<"download_config", "upload_config", "start_node", "poll_node_state">>
                    \o (IF fnIn.isEon THEN <<"sync_catalog">> ELSE <<>>)
        IN /\ IsPrefix(OpNames(Ran(1)), pre)
           /\ IsPrefix(OpNames(Ran(2)), main)
           /\ Ran(2) # <<>> => (OpNames(Ran(1)) = pre /\ \A i \in 1..Len(pre) : Ran(1)[i].ok)
           /\ \A i \in 1..Len(Ran(2)) :
                 Ran(2)[i].op \in {"upload_config", "spread_security"} =>
                    \E j \in 1..(i - 1) : Ran(2)[j].op = "read_catalog_editor" /\ Ran(2)[j].ok
           /\ (fnOut.returned /\ ~fnOut.err) => (OpNames(Ran(1)) = pre /\ OpNames(Ran(2)) = main)

\* an Eon start_db with spread encryption, an empty vdb and host trimming ran
\* to the end: sync-catalog was the last operation
C25_Witness ==
    /\ fnIn.cmd = "start_db" /\ fnIn.isEon /\ fnIn.spreadEncryption
    /\ fnIn.vdbEmpty /\ fnIn.trimHostList
    /\ fnOut.returned /\ ~fnOut.err
    /\ Len(Ran(1)) = 4 /\ Len(Ran(2)) = 8
    /\ fnOut.trace[Len(fnOut.trace)].op = "sync_catalog"


\* drop_db
DropDBOptions ==
    {[Options("drop_db", SetToSeq(S)) EXCEPT !.forceDelete = f] :
        S \in (SUBSET Hosts) \ {{}}, f \in BOOLEAN}

InitDropDB == InitCommand(DropDBOptions)

SpecDropDB == InitDropDB /\ [][NextCommand]_vars

\* C26: drop_db runs health, check-running-DB and delete-directories in this
\* order; delete-directories is executed only after health and
\* check-running-DB both returned without error; the database is removed from
\* the config file only after all three operations succeeded, never after a
\* failure.
C26_DropDBOrder ==
    fnIn.cmd = "drop_db" =>
        /\ IsPrefix(OpNames(fnOut.trace), <<"nma_health", "check_running_db", "delete_directories">>)
        /\ \A i \in 1..Len(fnOut.trace) :
              fnOut.trace[i].op = "delete_directories" =>
                 /\ i = 3
                 /\ fnOut.trace[1].op = "nma_health" /\ fnOut.trace[1].ok
                 /\ fnOut.trace[2].op = "check_running_db" /\ fnOut.trace[2].ok
        /\ fnOut.configRemoved =>
              /\ fnOut.returned /\ ~fnOut.err /\ ~fnOut.failed
              /\ Len(fnOut.trace) = 3
              /\ \A i \in 1..3 : fnOut.trace[i].ok
        /\ (fnOut.returned /\ fnOut.failed) => (fnOut.err /\ ~fnOut.configRemoved)

\* check-running-DB failed: delete-directories never ran and the config file
\* was left alone
C26_Witness ==
    /\ fnIn.cmd = "drop_db"
    /\ fnOut.returned /\ fnOut.err
    /\ Len(fnOut.trace) = 2
    /\ fnOut.trace[1].ok /\ ~fnOut.trace[2].ok
    /\ fnOut.trace[2].op = "check_running_db"
    /\ ~fnOut.configRemoved

\* add_node
AddNodeOptions ==
    {[Options("add_node", AllHosts) EXCEPT !.newHosts = <<NumHosts>>, !.initiator = <<1>>,
                                           !.isEon = eon, !.useDepot = d,
                                           !.skipRebalanceShards = s] :
        eon \in BOOLEAN, d \in BOOLEAN, s \in BOOLEAN}

InitAddNode == InitCommand(AddNodeOptions)

SpecAddNode == InitAddNode /\ [][NextCommand]_vars

\* the add_node plan up to poll-node-state, by name
AddNodeNames ==
    <<"nma_health">>
    \o (IF fnIn.isEon THEN <<"find_subcluster">> ELSE <<>>)
    \o <<"vertica_version", "prepare_directories", "network_profile", "create_node",
         "reload_spread", "startup_command", "download_config", "upload_config",
         "start_node", "poll_node_state">>

\* the end of the add_node plan for an Eon database that is not skipped
EonTail ==
    IF fnIn.isEon
    THEN <<"sync_catalog">> \o (IF ~fnIn.skipRebalanceShards THEN <<"rebalance_shards">> ELSE <<>>)
    ELSE <<>>

\* an operation of the trace ran only after the named operation succeeded
RanAfter(later, earlier) ==
    \A i \in 1..Len(fnOut.trace) :
        fnOut.trace[i].op = later =>
           \E j \in 1..(i - 1) : fnOut.trace[j].op = earlier /\ fnOut.trace[j].ok

\* C27: the operations add_node runs are a prefix of health, find-subcluster
\* (Eon only), version, prepare-directories, network-profile, create-node,
\* reload-spread, start-up-command, transfer-config, start-nodes,
\* poll-node-state, create-depot (Eon only), sync-catalog (Eon only),
\* rebalance-shards (Eon only, not skipped), and a command that returns without
\* error ran all of them; create-node runs only after prepare-directories
\* succeeded and start-nodes only after create-node, reload-spread and
\* upload-config succeeded.
C27_AddNodeOrderDepotForEon ==
    fnIn.cmd = "add_node" =>
        LET shape == AddNodeNames \o (IF fnIn.isEon THEN <<"create_depot">> ELSE <<>>) \o EonTail
        IN /\ IsPrefix(OpNames(fnOut.trace), shape)
           /\ RanAfter("create_node", "prepare_directories")
           /\ RanAfter("start_node", "create_node")
           /\ RanAfter("start_node", "reload_spread")
           /\ RanAfter("start_node", "upload_config")
           /\ (fnOut.returned /\ ~fnOut.err) => OpNames(fnOut.trace) = shape

\* the order add_node has in the code: as stated, but create-depot is in the
\* plan exactly when the vdb uses a depot, whether or not the database is Eon
AddNodeOrderByUseDepot ==
    fnIn.cmd = "add_node" =>
        LET shape == AddNodeNames \o (IF fnIn.useDepot THEN <<"create_depot">> ELSE <<>>) \o EonTail
        IN /\ IsPrefix(OpNames(fnOut.trace), shape)
           /\ RanAfter("create_node", "prepare_directories")
           /\ RanAfter("start_node", "create_node")
           /\ RanAfter("start_node", "reload_spread")
           /\ RanAfter("start_node", "upload_config")
           /\ (fnOut.returned /\ ~fnOut.err) => OpNames(fnOut.trace) = shape


\* restart_node
RestartNodeRequests ==
    UNION {[S -> {"same", "moved"}] : S \in (SUBSET (0..NumHosts)) \ {{}}}

RestartNodeOptions ==
    {[Options("restart_node", AllHosts) EXCEPT
         !.isEon = eon,
         !.nodes = [n \in DOMAIN req |->
                       IF req[n] = "moved" \/ n \notin Hosts THEN MovedAddress(n)
                       ELSE CatalogAddress[n]]] :
        eon \in BOOLEAN, req \in RestartNodeRequests}

InitRestartNode == InitCommand(RestartNodeOptions)

SpecRestartNode == InitRestartNode /\ [][NextCommand]_vars

\* the restart_node plan has been produced
RestartPlanned == fnIn.cmd = "restart_node" /\ fnOut.stage >= 1

\* the requested nodes whose requested address differs from the catalog address
MovedNodes == {n \in DOMAIN fnIn.nodes : n \in Hosts /\ fnIn.nodes[n] # CatalogAddress[n]}

ReIPBlock == <<"network_profile", "re_ip", "reload_spread", "get_nodes_info">>

\* C28 as stated: the operations restart_node runs are a prefix of health,
\* version, get-up-nodes, the re-IP block (iff a node needs re-IP),
\* transfer-config, start-nodes, poll-node-state, sync-catalog (Eon only).
C28_RestartNodeOrderAsStated ==
    RestartPlanned =>
        IsPrefix(OpNames(fnOut.trace),
                 <<"nma_health", "vertica_version", "get_up_nodes">>
                 \o (IF MovedNodes # {} THEN ReIPBlock ELSE <<>>)
                 \o <<"download_config", "upload_config", "start_node", "poll_node_state">>
                 \o (IF fnIn.isEon THEN <<"sync_catalog">> ELSE <<>>))

\* C28: the operations restart_node runs are a prefix of health, version,
\* get-up-nodes, the block network-profile, re-IP, reload-spread,
\* refresh-nodes-info iff a node needs re-IP, transfer-config, the
\* restart-up-command, start-nodes, poll-node-state, and sync-catalog last and
\* only for Eon; without a node to re-IP none of the four block operations
\* is in the plan.
C28_RestartNodeOrder ==
    RestartPlanned =>
        LET shape == <<"nma_health", "vertica_version", "get_up_nodes">>
                     \o (IF MovedNodes # {} THEN ReIPBlock ELSE <<>>)
                     \o <<"download_config", "upload_config", "restart_up_command",
                          "start_node", "poll_node_state">>
                     \o (IF fnIn.isEon THEN <<"sync_catalog">> ELSE <<>>)
        IN /\ OpNames(fnOut.plan) = shape
           /\ IsPrefix(OpNames(fnOut.trace), shape)
           /\ MovedNodes = {} =>
                 \A i \in 1..Len(fnOut.plan) :
                     fnOut.plan[i].op \notin {"network_profile", "re_ip", "reload_spread",
                                               "get_nodes_info"}
           /\ (fnOut.returned /\ ~fnOut.err) => OpNames(fnOut.trace) = shape

\* an Eon restart with one node to re-IP ran to its end: the re-IP block was
\* run and sync-catalog was last
C28_Witness ==
    /\ RestartPlanned /\ fnIn.isEon
    /\ Cardinality(MovedNodes) = 1
    /\ fnOut.returned /\ ~fnOut.err
    /\ Len(fnOut.trace) = 13
    /\ fnOut.trace[5].op = "re_ip"
    /\ fnOut.trace[13].op = "sync_catalog"

\* the addresses requested for a set of nodes
RequestedAddresses(N) == {fnIn.nodes[n] : n \in N}

\* C29: a requested node is in the re-IP list iff its requested address
\* differs from its catalog address; when a node needs re-IP exactly the
\* moved nodes are re-IP'd, started and polled, and the unchanged nodes are
\* not restarted; when no node needs re-IP exactly the requested hosts are
\* started and polled and nothing is re-IP'd.
C29_ReIPList ==
    RestartPlanned =>
        LET info == fnOut.info
            targets == IF MovedNodes # {} THEN RequestedAddresses(MovedNodes)
                       ELSE RequestedAddresses(DOMAIN fnIn.nodes)
        IN /\ Range(info.NodeNamesToRestart) = MovedNodes
           /\ Len(info.NodeNamesToRestart) = Cardinality(MovedNodes)
           /\ Len(info.ReIPList) = Len(info.NodeNamesToRestart)
           /\ \A i \in 1..Len(info.ReIPList) :
                 info.ReIPList[i] = fnIn.nodes[info.NodeNamesToRestart[i]]
           /\ \A i \in 1..Len(fnOut.plan) :
                 fnOut.plan[i].op \in {"re_ip", "network_profile", "start_node", "poll_node_state"}
                    => /\ Range(fnOut.plan[i].hosts) = targets
                       /\ Len(fnOut.plan[i].hosts) = Cardinality(targets)
           /\ MovedNodes # {} =>
                 \A n \in (DOMAIN fnIn.nodes) \ MovedNodes :
                    \A i \in 1..Len(fnOut.trace) :
                        fnOut.trace[i].op \in {"re_ip", "start_node", "poll_node_state"}
                           => fnIn.nodes[n] \notin Range(fnOut.trace[i].hosts)
           /\ MovedNodes = {} => \A i \in 1..Len(fnOut.trace) : fnOut.trace[i].op # "re_ip"

\* node 2 moved and node 1 did not: only the new address of node 2 was
\* re-IP'd, started and polled
C29_Witness ==
    /\ RestartPlanned
    /\ DOMAIN fnIn.nodes = {1, 2}
    /\ MovedNodes = {2}
    /\ fnOut.returned /\ ~fnOut.err
    /\ \E i \in 1..Len(fnOut.trace) :
          fnOut.trace[i].op = "start_node" /\ fnOut.trace[i].hosts = <<MovedAddress(2)>>
    /\ \E i \in 1..Len(fnOut.trace) :
          fnOut.trace[i].op = "re_ip" /\ fnOut.trace[i].hosts = <<MovedAddress(2)>>

\* ---------------------------------------------------------------------------
\* VCoordinationDatabase: the ordered host list and the host-to-node map
\* ---------------------------------------------------------------------------

\* the number of operations applied to one VCoordinationDatabase
MaxVdbOps == 3

\* node names v_<db>_node000i are represented by their index i
NodeNames == 1..NumHosts

VCoordinationNode(name, isPrimary, state) ==
    [Name |-> name, IsPrimary |-> isPrimary, State |-> state]

makeVHostNodeMap == [h \in {} |-> VCoordinationNode(0, FALSE, "")]

\* a VCoordinationDatabase: the host list, the entries of the host-to-node map,
\* and whether the map is the nil map, which can be read but not written
VCoordinationDatabase(hostList, hostNodeMap, mapIsNil) ==
    [HostList |-> hostList, HostNodeMap |-> hostNodeMap, mapIsNil |-> mapIsNil]

\* makeVCoordinationDatabase: the zero value of the struct, no host and a nil map
makeVCoordinationDatabase == VCoordinationDatabase(<<>>, makeVHostNodeMap, TRUE)

\* the node setFromNodeConfig builds: name from the config, no primary flag, no state
NodeFromConfig(nodeConfig) == VCoordinationNode(nodeConfig.Name, FALSE, "")

\* what a method of the vdb leaves behind: the vdb, whether it returned an
\* error, and whether it panicked instead of returning
VdbOut(vdb, failed) == [vdb |-> vdb, err |-> failed, panic |-> FALSE]

\* the assignment to an entry of a nil map panics: nothing is returned
VdbPanic(vdb) == [vdb |-> vdb, err |-> FALSE, panic |-> TRUE]

\* addNode: an address already in the map is an error; otherwise the node
\* enters the map, which panics on a nil map, and its address is appended to
\* the host list
addNode(vdb, address, vnode) ==
    IF address \in DOMAIN vdb.HostNodeMap
    THEN VdbOut(vdb, TRUE)
    ELSE IF vdb.mapIsNil THEN VdbPanic(vdb)
    ELSE VdbOut([vdb EXCEPT !.HostList = Append(vdb.HostList, address),
                            !.HostNodeMap = [h \in DOMAIN vdb.HostNodeMap \cup {address} |->
                                               IF h = address THEN vnode ELSE vdb.HostNodeMap[h]]],
                FALSE)

\* util.FilterMapByKey: the entries of the map whose key is among the given keys
FilterMapByKey(m, keys) == [h \in DOMAIN m \cap Range(keys) |-> m[h]]

\* util.GenVNodeName: the first index in 1..hostCount that names no node; 0 if none
GenVNodeName(names, hostCount) ==
    IF \E i \in 1..hostCount : i \notin names
    THEN CHOOSE i \in 1..hostCount : i \notin names /\ \A j \in 1..(i - 1) : j \in names
    ELSE 0

genNodeNameToHostMap(vdb) == {vdb.HostNodeMap[h].Name : h \in DOMAIN vdb.HostNodeMap}

\* the loop of addHosts from host i on; it stops at the first error
RECURSIVE addHostsLoop(_, _, _, _, _)
addHostsLoop(vdb, hosts, i, nodeNameToHost, totalHostCount) ==
    IF i > Len(hosts) THEN VdbOut(vdb, FALSE)
    ELSE LET name == GenVNodeName(nodeNameToHost, totalHostCount)
         IN IF name = 0 THEN VdbOut(vdb, TRUE)
            ELSE LET r == addNode(vdb, hosts[i], NodeFromConfig([Address |-> hosts[i], Name |-> name]))
                 IN IF r.err \/ r.panic THEN r
                    ELSE addHostsLoop(r.vdb, hosts, i + 1, nodeNameToHost \cup {name}, totalHostCount)

addHosts(vdb, hosts) ==
    addHostsLoop(vdb, hosts, 1, genNodeNameToHostMap(vdb), Len(hosts) + Len(vdb.HostList))

\* the loop of setFromClusterConfig over the nodes of the config
RECURSIVE setFromClusterConfigLoop(_, _, _)
setFromClusterConfigLoop(vdb, nodes, i) ==
    IF i > Len(nodes) THEN VdbOut(vdb, FALSE)
    ELSE LET r == addNode(vdb, nodes[i].Address, NodeFromConfig(nodes[i]))
         IN IF r.err \/ r.panic THEN r ELSE setFromClusterConfigLoop(r.vdb, nodes, i + 1)

\* setFromClusterConfig: the map is made anew, the host list is kept, and
\* every node of the config is added without validation
setFromClusterConfig(vdb, nodes) ==
    setFromClusterConfigLoop([vdb EXCEPT !.HostNodeMap = makeVHostNodeMap, !.mapIsNil = FALSE],
                             nodes, 1)

\* filterPrimaryNodes: the primary nodes stay; the host list is the keys of
\* the map in the order maps.Keys yields them
filterPrimaryNodes(vdb, order) ==
    LET primaryHostNodeMap ==
            [h \in {k \in DOMAIN vdb.HostNodeMap : vdb.HostNodeMap[k].IsPrimary} |->
                vdb.HostNodeMap[h]]
    IN VCoordinationDatabase(order, primaryHostNodeMap, FALSE)

\* copy: without target hosts a copy of both; otherwise the filtered map and
\* the target hosts themselves as host list. nilOfNil: whether util.CopyMap
\* and util.FilterMapByKey give the nil map for a nil map
copy(vdb, targetHosts, nilOfNil) ==
    IF Len(targetHosts) = 0
    THEN VCoordinationDatabase(vdb.HostList, vdb.HostNodeMap, vdb.mapIsNil /\ nilOfNil)
    ELSE VCoordinationDatabase(targetHosts, FilterMapByKey(vdb.HostNodeMap, targetHosts),
                               vdb.mapIsNil /\ nilOfNil)

\* trimNodesInCatalog: nothing without expected names; an unexpected UP node,
\* an expected name missing from the catalog or a failed engine is an error
\* that leaves the vdb alone; otherwise the expected hosts stay, in the order
\* the map was iterated
trimNodesInCatalog(vdb, expectedNodeNames, order, runOk) ==
    LET m == vdb.HostNodeMap
        aliveHosts == SelectSeq(order, LAMBDA h : m[h].Name \in expectedNodeNames)
        upTrimmed == \E h \in DOMAIN m : m[h].Name \notin expectedNodeNames /\ m[h].State = "UP"
        invalidNodeNames == expectedNodeNames \ genNodeNameToHostMap(vdb)
    IN IF expectedNodeNames = {} THEN VdbOut(vdb, FALSE)
       ELSE IF upTrimmed \/ invalidNodeNames # {} \/ ~runOk THEN VdbOut(vdb, TRUE)
       ELSE VdbOut([vdb EXCEPT !.HostList = aliveHosts,
                               !.HostNodeMap = FilterMapByKey(m, aliveHosts)], FALSE)

\* the inputs of the operations
HostSeqs == {<<>>} \cup {<<a>> : a \in Hosts} \cup {<<a, b>> : a, b \in Hosts}

NodeConfigs == {[Address |-> a, Name |-> n] : a \in Hosts, n \in NodeNames}

ClusterConfigs == {<<>>} \cup {<<c>> : c \in NodeConfigs} \cup {<<c, d>> : c, d \in NodeConfigs}

VdbStep(vdb, op, failed, panicked) ==
    /\ fnIn' = vdb
    /\ fnOut' = [ops |-> fnOut.ops + 1, last |-> op, err |-> failed, panic |-> panicked]
    /\ UNCHANGED engineVars
    /\ UNCHANGED dispatchVars
    /\ UNCHANGED dataVars

\* a panic ends the program
VdbReady == pc = "vdb" /\ fnOut.ops < MaxVdbOps /\ ~fnOut.panic

VdbSetFromClusterConfig ==
    /\ VdbReady
    /\ \E nodes \in ClusterConfigs :
         LET r == setFromClusterConfig(fnIn, nodes)
         IN VdbStep(r.vdb, "setFromClusterConfig", r.err, r.panic)

VdbAddNode ==
    /\ VdbReady
    /\ \E a \in Hosts, n \in NodeNames, p \in BOOLEAN, s \in {"UP", "DOWN"} :
         LET r == addNode(fnIn, a, VCoordinationNode(n, p, s))
         IN VdbStep(r.vdb, "addNode", r.err, r.panic)

VdbAddHosts ==
    /\ VdbReady
    /\ \E hosts \in HostSeqs :
         LET r == addHosts(fnIn, hosts)
         IN VdbStep(r.vdb, "addHosts", r.err, r.panic)

VdbFilterPrimaryNodes ==
    /\ VdbReady
    /\ \E order \in Orders({k \in DOMAIN fnIn.HostNodeMap : fnIn.HostNodeMap[k].IsPrimary}) :
         VdbStep(filterPrimaryNodes(fnIn, order), "filterPrimaryNodes", FALSE, FALSE)

VdbCopy ==
    /\ VdbReady
    /\ \E targetHosts \in HostSeqs, nilOfNil \in BOOLEAN :
         VdbStep(copy(fnIn, targetHosts, nilOfNil), "copy", FALSE, FALSE)

VdbTrimNodesInCatalog ==
    /\ VdbReady
    /\ \E expected \in SUBSET NodeNames, order \in Orders(DOMAIN fnIn.HostNodeMap), runOk \in BOOLEAN :
         LET r == trimNodesInCatalog(fnIn, expected, order, runOk)
         IN VdbStep(r.vdb, "trimNodesInCatalog", r.err, r.panic)

NextVDB ==
    \/ VdbSetFromClusterConfig
    \/ VdbAddNode
    \/ VdbAddHosts
    \/ VdbFilterPrimaryNodes
    \/ VdbCopy
    \/ VdbTrimNodesInCatalog

InitVDB ==
    /\ fnIn = makeVCoordinationDatabase
    /\ fnOut = [ops |-> 0, last |-> "", err |-> FALSE, panic |-> FALSE]
    /\ plan = <<>>
    /\ certs = Certs(FALSE, FALSE, FALSE)
    /\ pc = "vdb"
    /\ idx = 0
    /\ ctx = EmptyCtx
    /\ ops = <<>>
    /\ results = NoResults
    /\ calls = <<>>
    /\ runErr = NoErr
    /\ pending = {}
    /\ inflight = {}
    /\ poolSize = 0
    /\ dispatched = {}
    /\ prLog = NoProcCall
    /\ fileContent = NoText
    /\ bodies = <<>>
    /\ log = {}
    /\ cmd = NotReturned
    /\ polls = 0

SpecVDB == InitVDB /\ [][NextVDB]_vars

HostListNoDuplicates ==
    \A i, j \in 1..Len(fnIn.HostList) : i # j => fnIn.HostList[i] # fnIn.HostList[j]

HostListMatchesMap == Range(fnIn.HostList) = DOMAIN fnIn.HostNodeMap

NodeNamesDistinct ==
    \A h, k \in DOMAIN fnIn.HostNodeMap :
        h # k => fnIn.HostNodeMap[h].Name # fnIn.HostNodeMap[k].Name

\* C30: after any sequence of setFromClusterConfig, addNode, addHosts,
\* filterPrimaryNodes, copy and trimNodesInCatalog the host list has no
\* duplicates, its addresses are exactly the keys of the host-to-node map,
\* and the node names are pairwise distinct
C30_VdbInvariant ==
    pc = "vdb" => HostListNoDuplicates /\ HostListMatchesMap /\ NodeNamesDistinct

\* ---------------------------------------------------------------------------
\* VCoordinationDatabase: the Eon and depot settings
\* ---------------------------------------------------------------------------

CommunalLocations == {"", "s3://bucket"}

DepotPrefixes == {"", "/depot", "/depot2", "depot"}

\* util.ValidateRequiredAbsPath on the depot prefixes above
IsAbsPath(p) == p \in {"/depot", "/depot2", "/data", "/data2"}

DataPrefixes == {"", "/data", "/data2"}

VdbSettings(dataPrefix, isEon, communal, useDepot, depotPrefix) ==
    [DataPrefix |-> dataPrefix, IsEon |-> isEon, CommunalStorageLocation |-> communal,
     UseDepot |-> useDepot, DepotPrefix |-> depotPrefix]

\* the settings of makeVCoordinationDatabase: the zero value of every field
FreshVdbSettings == VdbSettings("", FALSE, "", FALSE, "")

\* setFromCreateDBOptions: nothing is set when the validation fails; Eon and
\* the depot prefix follow the communal storage location, UseDepot follows the
\* depot prefix of the options
setFromCreateDBOptions(vdb, o, validateOk) ==
    IF ~validateOk THEN VdbOut(vdb, TRUE)
    ELSE LET eon == o.CommunalStorageLocation # ""
         IN VdbOut(VdbSettings(o.DataPrefix, eon,
                               IF eon THEN o.CommunalStorageLocation ELSE vdb.CommunalStorageLocation,
                               o.DepotPrefix # "",
                               IF eon THEN o.DepotPrefix ELSE vdb.DepotPrefix),
                   o.awsErr)

\* setFromClusterConfig, the settings: the path prefixes, then Eon and the
\* communal location as the config file has them; UseDepot is set when the
\* depot prefix is not empty; an unknown database is an error
setFromClusterConfigSettings(vdb, dbConfig) ==
    IF ~dbConfig.found THEN VdbOut(vdb, TRUE)
    ELSE VdbOut(VdbSettings(dbConfig.DataPrefix, dbConfig.IsEon, dbConfig.CommunalStorageLocation,
                            IF dbConfig.DepotPrefix # "" THEN TRUE ELSE vdb.UseDepot,
                            dbConfig.DepotPrefix),
                FALSE)

\* VAddNodeOptions.validateEonOptions: a depot prefix must be an absolute path
validateEonOptions(o) == o.DepotPrefix # "" /\ ~IsAbsPath(o.DepotPrefix)

\* completeVDBSetting: the data and depot prefixes are taken from the options
completeVDBSetting(vdb, o) ==
    [vdb EXCEPT !.DataPrefix = o.DataPrefix, !.DepotPrefix = o.DepotPrefix]

\* the create_db options that pass validation: a depot prefix comes with a
\* communal storage location and the other way round
CreateDBOptions ==
    {[DataPrefix |-> d, CommunalStorageLocation |-> c, DepotPrefix |-> p, awsErr |-> a] :
        d \in DataPrefixes \ {""}, c \in CommunalLocations, p \in DepotPrefixes, a \in BOOLEAN}

ValidCreateDBOptions ==
    {o \in CreateDBOptions : /\ (o.CommunalStorageLocation = "") = (o.DepotPrefix = "")
                             /\ o.DepotPrefix # "" => IsAbsPath(o.DepotPrefix)}

\* the database entries of a config file, which is not validated
DatabaseConfigs ==
    {[found |-> f, DataPrefix |-> d, IsEon |-> e, CommunalStorageLocation |-> c, DepotPrefix |-> p] :
        f \in BOOLEAN, d \in DataPrefixes \ {""}, e \in BOOLEAN, c \in CommunalLocations,
        p \in DepotPrefixes}

\* the settings of a running database as getVDBFromRunningDB reports them
RunningDBSettings ==
    {VdbSettings("", TRUE, c, p # "", p) : c \in CommunalLocations \ {""},
                                           p \in {q \in DepotPrefixes : q = "" \/ IsAbsPath(q)}}
    \cup {VdbSettings("", FALSE, "", FALSE, "")}

CompleteVDBOptions ==
    {[DataPrefix |-> d, DepotPrefix |-> p] : d \in DataPrefixes, p \in DepotPrefixes}

SettingsStep(vdb, op, failed) ==
    /\ fnIn' = vdb
    /\ fnOut' = [ops |-> fnOut.ops + 1, last |-> op, err |-> failed]
    /\ UNCHANGED engineVars
    /\ UNCHANGED dispatchVars
    /\ UNCHANGED dataVars

\* VCreateDatabase builds its vdb from the options
SettingsFromCreateDBOptions ==
    /\ pc = "vdbsettings" /\ fnOut.ops = 0
    /\ \E o \in ValidCreateDBOptions, validateOk \in BOOLEAN :
         LET r == setFromCreateDBOptions(fnIn, o, validateOk)
         IN SettingsStep(r.vdb, "setFromCreateDBOptions", r.err)

\* VDropDatabase builds its vdb from the config file
SettingsFromClusterConfig ==
    /\ pc = "vdbsettings" /\ fnOut.ops = 0
    /\ \E dbConfig \in DatabaseConfigs :
         LET r == setFromClusterConfigSettings(fnIn, dbConfig)
         IN SettingsStep(r.vdb, "setFromClusterConfig", r.err)

\* VAddNode fetches its vdb from the running database
SettingsFromRunningDB ==
    /\ pc = "vdbsettings" /\ fnOut.ops = 0
    /\ \E vdb \in RunningDBSettings, failed \in BOOLEAN :
         SettingsStep(IF failed THEN fnIn ELSE vdb, "getVDBFromRunningDB", failed)

\* VAddNode then completes the vdb from its options
SettingsCompleteVDBSetting ==
    /\ pc = "vdbsettings" /\ fnOut.ops = 1
    /\ fnOut.last = "getVDBFromRunningDB" /\ ~fnOut.err
    /\ \E o \in CompleteVDBOptions :
         SettingsStep(completeVDBSetting(fnIn, o), "completeVDBSetting", FALSE)

\* VAddNode validates the depot prefix once the database is known to be Eon
SettingsValidateEonOptions ==
    /\ pc = "vdbsettings" /\ fnOut.ops = 2
    /\ fnOut.last = "completeVDBSetting"
    /\ SettingsStep(fnIn, "validateEonOptions", fnIn.IsEon /\ validateEonOptions(fnIn))

NextVDBSettings ==
    \/ SettingsValidateEonOptions
    \/ SettingsFromCreateDBOptions
    \/ SettingsFromClusterConfig
    \/ SettingsFromRunningDB
    \/ SettingsCompleteVDBSetting

InitVDBSettings ==
    /\ fnIn = FreshVdbSettings
    /\ fnOut = [ops |-> 0, last |-> "", err |-> FALSE]
    /\ plan = <<>>
    /\ certs = Certs(FALSE, FALSE, FALSE)
    /\ pc = "vdbsettings"
    /\ idx = 0
    /\ ctx = EmptyCtx
    /\ ops = <<>>
    /\ results = NoResults
    /\ calls = <<>>
    /\ runErr = NoErr
    /\ pending = {}
    /\ inflight = {}
    /\ poolSize = 0
    /\ dispatched = {}
    /\ prLog = NoProcCall
    /\ fileContent = NoText
    /\ bodies = <<>>
    /\ log = {}
    /\ cmd = NotReturned
    /\ polls = 0

SpecVDBSettings == InitVDBSettings /\ [][NextVDBSettings]_vars

UseDepotIffDepotPrefix == fnIn.UseDepot <=> fnIn.DepotPrefix # ""

EonHasCommunalStorage == fnIn.IsEon => fnIn.CommunalStorageLocation # ""

SettingsBuilt ==
    /\ pc = "vdbsettings" /\ ~fnOut.err
    /\ fnOut.last \in {"setFromCreateDBOptions", "setFromClusterConfig", "completeVDBSetting",
                       "validateEonOptions"}

\* C31: every vdb built by setFromCreateDBOptions or setFromClusterConfig, or
\* updated by completeVDBSetting, has UseDepot exactly when DepotPrefix is not
\* empty, and a communal storage location when it is Eon
C31_DepotAndEonSettings ==
    SettingsBuilt => UseDepotIffDepotPrefix /\ EonHasCommunalStorage

\* ---------------------------------------------------------------------------
\* WriteClusterConfig: the config file and its backup
\* ---------------------------------------------------------------------------

\* the number of WriteClusterConfig calls on one config directory
MaxWrites == 2

SortedDBNames == <<"db1", "db2">>

ConfigVersions == 1..2

\* a file: the database entries it holds, in file order; torn when its last
\* entry was cut in the middle
File(entries, torn) == [exists |-> TRUE, entries |-> entries, torn |-> torn]

NoFile == [exists |-> FALSE, entries |-> <<>>, torn |-> FALSE]

\* yaml.Marshal of a cluster config (database name -> database config): one
\* entry per database, keys in sorted order
Marshal(clusterConfig) ==
    LET present == SelectSeq(SortedDBNames, LAMBDA d : d \in DOMAIN clusterConfig)
    IN [i \in 1..Len(present) |-> [db |-> present[i], ver |-> clusterConfig[present[i]]]]

\* ReadConfig: the cluster config of a file; a torn file does not parse
ReadConfigFails(file) == file.torn

ReadConfig(file) ==
    [d \in {file.entries[i].db : i \in 1..Len(file.entries)} |->
        (CHOOSE e \in Range(file.entries) : e.db = d).ver]

MakeClusterConfig == [d \in {} |-> 0]

\* os.WriteFile: "ok" replaces the content; "open" fails before the file is
\* touched; "partial" fails after the truncation, with the first k entries
\* written and possibly a part of the next one
WriteFile(file, content, outcome, k, torn) ==
    IF outcome = "ok" THEN File(content, FALSE)
    ELSE IF outcome = "open" THEN file
    ELSE File(SubSeq(content, 1, k), torn)

\* ClusterConfig.WriteConfig: marshal, then os.WriteFile on the config file
WriteConfig(file, clusterConfig, outcome, k, torn) ==
    WriteFile(file, Marshal(clusterConfig), outcome, k, torn)

\* BackupConfigFile: an existing config file is copied to the backup file;
\* a failed copy is an error
BackupConfigFile(fs, copyOk) ==
    IF ~fs.file.exists THEN [fs |-> fs, err |-> FALSE, copied |-> FALSE]
    ELSE IF copyOk THEN [fs |-> [fs EXCEPT !.backup = fs.file], err |-> FALSE, copied |-> TRUE]
    ELSE [fs |-> fs, err |-> TRUE, copied |-> FALSE]

WriteReport(stage, failed, prev, copied, content) ==
    [stage |-> stage, err |-> failed, prev |-> prev, copied |-> copied, content |-> content]

\* WriteClusterConfig(vdb): build the database config, merge it into the
\* config read from an existing file, back the file up, write the file; every
\* failing step returns its error
WriteClusterConfigRun(fs, db, ver, vdbOk, readOk, pathOk, copyOk, outcome, k, torn) ==
    LET old == IF fs.file.exists THEN ReadConfig(fs.file) ELSE MakeClusterConfig
        clusterConfig == [d \in DOMAIN old \cup {db} |-> IF d = db THEN ver ELSE old[d]]
        content == Marshal(clusterConfig)
        b == BackupConfigFile(fs, copyOk)
        written == [b.fs EXCEPT !.file = WriteConfig(b.fs.file, clusterConfig, outcome, k, torn)]
    IN IF ~vdbOk THEN [fs |-> fs, report |-> WriteReport("build", TRUE, fs.file, FALSE, content)]
       ELSE IF fs.file.exists /\ (~readOk \/ ReadConfigFails(fs.file))
       THEN [fs |-> fs, report |-> WriteReport("read", TRUE, fs.file, FALSE, <<>>)]
       ELSE IF ~pathOk THEN [fs |-> fs, report |-> WriteReport("path", TRUE, fs.file, FALSE, content)]
       ELSE IF b.err THEN [fs |-> b.fs, report |-> WriteReport("backup", TRUE, fs.file, FALSE, content)]
       ELSE [fs |-> written,
             report |-> WriteReport("write", outcome # "ok", fs.file, b.copied, content)]

NoWriteReport == WriteReport("", FALSE, NoFile, FALSE, <<>>)

WriteClusterConfig ==
    /\ pc = "config"
    /\ fnOut.calls < MaxWrites
    /\ \E db \in Range(SortedDBNames), ver \in ConfigVersions,
          vdbOk \in BOOLEAN, readOk \in BOOLEAN, pathOk \in BOOLEAN, copyOk \in BOOLEAN,
          outcome \in {"ok", "open", "partial"}, k \in 0..1, torn \in BOOLEAN :
         LET r == WriteClusterConfigRun(fnIn, db, ver, vdbOk, readOk, pathOk, copyOk, outcome, k, torn)
         IN /\ outcome = "partial" => k < Len(r.report.content)
            /\ fnIn' = r.fs
            /\ fnOut' = [calls |-> fnOut.calls + 1, report |-> r.report]
    /\ UNCHANGED engineVars
    /\ UNCHANGED dispatchVars
    /\ UNCHANGED dataVars

InitConfigFile ==
    /\ fnIn = [file |-> NoFile, backup |-> NoFile]
    /\ fnOut = [calls |-> 0, report |-> NoWriteReport]
    /\ plan = <<>>
    /\ certs = Certs(FALSE, FALSE, FALSE)
    /\ pc = "config"
    /\ idx = 0
    /\ ctx = EmptyCtx
    /\ ops = <<>>
    /\ results = NoResults
    /\ calls = <<>>
    /\ runErr = NoErr
    /\ pending = {}
    /\ inflight = {}
    /\ poolSize = 0
    /\ dispatched = {}
    /\ prLog = NoProcCall
    /\ fileContent = NoText
    /\ bodies = <<>>
    /\ log = {}
    /\ cmd = NotReturned
    /\ polls = 0

SpecConfigFile == InitConfigFile /\ [][WriteClusterConfig]_vars

WriteCalled == pc = "config" /\ fnOut.calls > 0

\* an existing file is only ever changed after it was copied to the backup
BackupBeforeOverwrite ==
    (fnOut.report.prev.exists /\ fnIn.file # fnOut.report.prev)
        => fnOut.report.copied /\ fnIn.backup = fnOut.report.prev

\* a failed backup leaves the file as it was
FailedBackupKeepsFile ==
    fnOut.report.stage = "backup" => fnIn.file = fnOut.report.prev

\* the file holds the complete old or the complete new content
OldOrNewContent ==
    \/ fnIn.file = fnOut.report.prev
    \/ fnIn.file = File(fnOut.report.content, FALSE)

\* C32: WriteClusterConfig backs an existing config file up before it
\* overwrites it, leaves the file unmodified when the backup fails, and never
\* leaves a partially written file: after the call the file holds either the
\* complete old or the complete new content
C32_AtomicWriteAfterBackup ==
    WriteCalled => BackupBeforeOverwrite /\ FailedBackupKeepsFile /\ OldOrNewContent

\* ---------------------------------------------------------------------------
\* start_db: the pre-check engine, the command between the runs, the main engine
\* ---------------------------------------------------------------------------

\* the hosts of a vdb, in host order
VdbHostSeq(vdbHosts) == SelectSeq(AllHosts, LAMBDA h : h \in vdbHosts)

\* get-nodes-info: made with the hosts of the options and a pointer to the vdb
\* of the command, into which it writes the nodes it found
GetNodesInfoOp(hosts, found) == [StubOp(hosts, NoPublish) EXCEPT !.vdbHosts = found]

\* the hosts the vdb of the command holds once the get-nodes-info of the
\* pre-check plan, made only for an empty vdb, has filled it
FilledVdb(o) == IF o.vdbHosts = {} THEN o.nodesInfo ELSE o.vdbHosts

\* produceStartDBPreCheck as operations of the engine: health, check running
\* db, get-nodes-info only for an empty vdb, and the catalog read, which
\* publishes into the context, only with TrimHostList
PrecheckPlan(o) ==
    <<StubOp(o.hosts, NoPublish), StubOp(o.hosts, NoPublish)>>
    \o (IF o.vdbHosts = {} THEN <<GetNodesInfoOp(o.hosts, o.nodesInfo)>> ELSE <<>>)
    \o (IF o.trimHostList THEN <<StubOp(VdbHostSeq(FilledVdb(o)), o.preCatalog)>> ELSE <<>>)

\* the vdb of the command after the pre-check run: what get-nodes-info wrote
\* into it, when it was in the plan and was executed
VdbAfterPrecheck(o, opStates) ==
    IF o.vdbHosts = {} /\ ~opStates[3].skipExecute THEN o.nodesInfo ELSE o.vdbHosts

\* produceStartDBInstructions as operations of the engine: the catalog read
\* made with the vdb of the command, then the consumer of
\* hostsWithLatestCatalog made for the hosts of the options
MainPlan(o, hosts, vdbHosts) ==
    <<StubOp(VdbHostSeq(vdbHosts), o.mainCatalog), UploadOp(TRUE, <<>>, hosts, {})>>

\* what the catalog read of the pre-check and of the main plan publish
PreCatalogs == {Publish({2}, Hosts \ {NumHosts}, {}), Publish({1, 2}, Hosts, {})}

MainCatalogs == {Publish({1}, Hosts, {}), Publish({1, NumHosts}, Hosts, {})}

TwoRunOptions ==
    {o \in [trimHostList : BOOLEAN, hosts : {AllHosts}, vdbHosts : {{}, {1, 2}},
             nodesInfo : {Hosts, {1}}, preCatalog : PreCatalogs, mainCatalog : MainCatalogs] :
        o.vdbHosts = {} \/ o.nodesInfo = Hosts}

InitTwoRuns ==
    /\ fnIn \in TwoRunOptions
    /\ plan = PrecheckPlan(fnIn)
    /\ certs = Certs(FALSE, FALSE, FALSE)
    /\ pc = "start"
    /\ idx = 0
    /\ ctx = EmptyCtx
    /\ ops = [i \in 1..Len(plan) |-> FreshOpState]
    /\ results = NoResults
    /\ calls = <<>>
    /\ runErr = NoErr
    /\ pending = {}
    /\ inflight = {}
    /\ poolSize = 0
    /\ dispatched = {}
    /\ prLog = NoProcCall
    /\ fnOut = [run |-> 1, hosts |-> fnIn.hosts, vdbHosts |-> fnIn.vdbHosts,
                preCtx |-> EmptyCtx, err |-> FALSE]
    /\ fileContent = NoText
    /\ bodies = [i \in 1..Len(plan) |-> NoBodies]
    /\ log = {}
    /\ cmd = NotReturned
    /\ polls = 0

\* runStartDBPrecheck after run() returned, then VStartDatabase up to the
\* run() of the main engine: a failed pre-check ends the command; otherwise
\* the hosts of the options are trimmed from the context of the pre-check
\* engine, the main instructions are produced from the trimmed hosts and the
\* vdb the pre-check filled, and a new engine is made for them
StartDBPrecheckReturn ==
    /\ pc = "done" /\ fnOut.run = 1
    /\ IF runErr # NoErr
       THEN /\ fnOut' = [fnOut EXCEPT !.run = 0, !.err = TRUE]
            /\ UNCHANGED <<plan, pc, idx, ops, results, calls, runErr, dispatched, bodies>>
       ELSE LET hosts == PrecheckHosts(fnIn, ctx)
                vdbHosts == VdbAfterPrecheck(fnIn, ops)
                instructions == MainPlan(fnIn, hosts, vdbHosts)
            IN /\ fnOut' = [run |-> 2, hosts |-> hosts, vdbHosts |-> vdbHosts,
                            preCtx |-> ctx, err |-> FALSE]
               /\ plan' = instructions
               /\ pc' = "start"
               /\ idx' = 0
               /\ ops' = [i \in 1..Len(instructions) |-> FreshOpState]
               /\ results' = NoResults
               /\ calls' = <<>>
               /\ runErr' = NoErr
               /\ dispatched' = {}
               /\ bodies' = [i \in 1..Len(instructions) |-> NoBodies]
    /\ UNCHANGED <<certs, ctx, pending, inflight, poolSize, prLog, fnIn>>
    /\ UNCHANGED <<fileContent, log, cmd, polls>>

NextTwoRuns ==
    \/ Next
    \/ StartDBPrecheckReturn

SpecTwoRuns == InitTwoRuns /\ [][NextTwoRuns]_vars

\* the first operation of the main run is about to prepare
MainRunFirstPrepare == fnOut.run = 2 /\ pc = "prepare" /\ idx = 1

\* the main run starts with a context in which nothing is published
FreshContextPerRun == MainRunFirstPrepare => ctx = EmptyCtx

\* the context of the main run holds nothing, or what the catalog read of the
\* main plan itself published: never what the pre-check run published
EarlierRunNotVisible ==
    (fnOut.run = 2 /\ pc # "start") =>
        \/ ctx = EmptyCtx
        \/ /\ ctx.hostsWithLatestCatalog = fnIn.mainCatalog.hostsWithLatestCatalog
           /\ ctx.nmaVDBHosts = fnIn.mainCatalog.nmaVDBHosts

\* the consumer of the main plan was made for the hosts the command has after
\* the pre-check, and the catalog read for the vdb the pre-check left
MainPlanFromPrecheck ==
    fnOut.run = 2 =>
        /\ plan[2].kind = "upload" /\ plan[2].hosts = fnOut.hosts
        /\ plan[1].hosts = VdbHostSeq(fnOut.vdbHosts)

\* C33 as stated: every run starts with a fresh context, nothing an earlier
\* run published is visible to a later run, and nothing is read from the
\* context after run() has returned: the hosts of the command stay as given
C33_ContextDiscardedAtPlanEnd ==
    /\ FreshContextPerRun
    /\ EarlierRunNotVisible
    /\ fnOut.run = 2 => fnOut.hosts = fnIn.hosts

\* C33: every run starts with a fresh context and nothing an earlier run
\* published into its context is visible in the context of a later run; the
\* context of the pre-check run is still read after that run returned: with
\* TrimHostList the hosts of the command become the given hosts that are in
\* the vdb the pre-check published, and the main plan is made for them
C33_FreshContextReadAfterRun ==
    /\ FreshContextPerRun
    /\ EarlierRunNotVisible
    /\ MainPlanFromPrecheck
    /\ fnOut.run = 2 =>
         fnOut.hosts = IF fnIn.trimHostList
                       THEN SelectSeq(fnIn.hosts, LAMBDA h : h \in fnOut.preCtx.nmaVDBHosts)
                       ELSE fnIn.hosts

\* the main run executes its consumer for the trimmed hosts, after a pre-check
\* that published hosts with the latest catalog and a catalog without one of
\* the given hosts
C33_Witness ==
    /\ fnOut.run = 2 /\ fnIn.trimHostList
    /\ Len(fnOut.preCtx.hostsWithLatestCatalog) > 0
    /\ fnOut.hosts # fnIn.hosts
    /\ idx = 2 /\ pc = "execute" /\ Range(ops[2].hosts) \subseteq Range(fnOut.hosts)

\* ---------------------------------------------------------------------------
\* option validation before the plan
\* ---------------------------------------------------------------------------

\* whether the command returns the error of validateAnalyzeOptions: the
\* add-node API with a bootstrap host only logs it
ReturnsValidationError(command) == command # "add_node_bootstrap"

\* the first step of a command: validateAnalyzeOptions
CmdValidate ==
    /\ pc = "validate"
    /\ pc' = "command"
    /\ fnOut' = IF fnIn.invalid /\ ReturnsValidationError(fnIn.cmd)
                THEN [fnOut EXCEPT !.returned = TRUE, !.err = TRUE]
                ELSE fnOut
    /\ UNCHANGED <<plan, certs, idx, ctx, ops, results, calls, runErr>>
    /\ UNCHANGED fnIn
    /\ UNCHANGED dispatchVars
    /\ UNCHANGED dataVars

NextValidate ==
    \/ CmdValidate
    \/ NextCommand

ValidatedCommands == {"add_node", "add_node_bootstrap", "start_db", "sandbox", "install_packages"}

ValidateOptions ==
    {[Options(c, SetToSeq(S)) EXCEPT !.invalid = i, !.initiator = <<1>>, !.isEon = e] :
        c \in ValidatedCommands, S \in {{2}, {2, 3}}, i \in BOOLEAN, e \in BOOLEAN}

InitValidate ==
    /\ fnIn \in ValidateOptions
    /\ fnOut = CommandNotStarted
    /\ plan = <<>>
    /\ certs = Certs(FALSE, FALSE, FALSE)
    /\ pc = "validate"
    /\ idx = 0
    /\ ctx = EmptyCtx
    /\ ops = <<>>
    /\ results = NoResults
    /\ calls = <<>>
    /\ runErr = NoErr
    /\ pending = {}
    /\ inflight = {}
    /\ poolSize = 0
    /\ dispatched = {}
    /\ prLog = NoProcCall
    /\ fileContent = NoText
    /\ bodies = <<>>
    /\ log = {}
    /\ cmd = NotReturned
    /\ polls = 0

SpecValidate == InitValidate /\ [][NextValidate]_vars

\* C34: when the validation of the options fails, the command returns the
\* error, produces no plan and runs no engine operation
C34_ValidationErrorAborts ==
    (pc = "command" /\ fnIn.invalid)
        => /\ fnOut.returned /\ fnOut.err
           /\ fnOut.stage = 0 /\ fnOut.plan = <<>> /\ fnOut.trace = <<>>

\* ---------------------------------------------------------------------------
\* add_node: trimming nodes from the catalog
\* ---------------------------------------------------------------------------

\* below this number of kept hosts the design is marked k-safe 0
ksafetyThreshold == 3

NodeStates == {"UP", "DOWN", "UNKNOWN"}

TrimOp(name, initiator, nodeName) == [op |-> name, hosts |-> initiator, node |-> nodeName]

TrimOut(failed, initiator, instructions) ==
    [err |-> failed, initiator |-> initiator, instructions |-> instructions]

\* a trim that does not look at the state of the nodes it drops
trimNodesInstructionsAnyState(vdb, expectedNodeNames, order) ==
    LET m == vdb.HostNodeMap
        aliveHosts == SelectSeq(order, LAMBDA h : m[h].Name \in expectedNodeNames)
        trimHosts == SelectSeq(order, LAMBDA h : m[h].Name \notin expectedNodeNames)
        initiator == SubSeq(aliveHosts, 1, 1)
    IN IF expectedNodeNames = {} THEN TrimOut(FALSE, <<>>, <<>>)
       ELSE IF expectedNodeNames \ genNodeNameToHostMap(vdb) # {} THEN TrimOut(TRUE, <<>>, <<>>)
       ELSE TrimOut(FALSE, initiator,
                    (IF Len(aliveHosts) < ksafetyThreshold
                     THEN <<TrimOp("mark_design_ksafe", initiator, 0)>> ELSE <<>>)
                    \o [i \in 1..Len(trimHosts) |-> TrimOp("drop_node", initiator, m[trimHosts[i]].Name)])

\* trimNodesInCatalog up to its engine: the kept hosts and the nodes to trim
\* in the order the map is iterated, the first kept host as initiator,
\* mark-k-safety when few hosts are kept, then one drop-node per node to trim
trimNodesInstructions(vdb, expectedNodeNames, order) ==
    LET m == vdb.HostNodeMap
        aliveHosts == SelectSeq(order, LAMBDA h : m[h].Name \in expectedNodeNames)
        trimHosts == SelectSeq(order, LAMBDA h : m[h].Name \notin expectedNodeNames)
        initiator == SubSeq(aliveHosts, 1, 1)
    IN IF expectedNodeNames = {} THEN TrimOut(FALSE, <<>>, <<>>)
       ELSE IF \E h \in DOMAIN m : m[h].Name \notin expectedNodeNames /\ m[h].State = "UP"
       THEN TrimOut(TRUE, <<>>, <<>>)
       ELSE IF expectedNodeNames \ genNodeNameToHostMap(vdb) # {} THEN TrimOut(TRUE, <<>>, <<>>)
       ELSE TrimOut(FALSE, initiator,
                    (IF Len(aliveHosts) < ksafetyThreshold
                     THEN <<TrimOp("mark_design_ksafe", initiator, 0)>> ELSE <<>>)
                    \o [i \in 1..Len(trimHosts) |-> TrimOp("drop_node", initiator, m[trimHosts[i]].Name)])

\* the catalogs of a running database: node i on host i, in any state
RunningCatalogs ==
    {VCoordinationDatabase(SetToSeq(S), [h \in S |-> VCoordinationNode(h, TRUE, st[h])], FALSE) :
        S \in (SUBSET Hosts) \ {{}}, st \in [Hosts -> NodeStates]}

NotTrimmed ==
    [called |-> FALSE, err |-> FALSE, expected |-> {}, initiator |-> <<>>, ran |-> <<>>,
     vdb |-> makeVCoordinationDatabase]

\* VAddNode calls trimNodesInCatalog: the engine runs the instructions up to
\* the first that fails; the vdb is updated after a run without error
TrimNodesInCatalog ==
    /\ pc = "trim" /\ ~fnOut.called
    /\ \E expected \in SUBSET NodeNames, order \in Orders(DOMAIN fnIn.HostNodeMap),
          failAt \in 0..NumHosts :
         LET t == trimNodesInstructions(fnIn, expected, order)
             runOk == failAt = 0 \/ failAt > Len(t.instructions)
             r == IF t.err THEN VdbOut(fnIn, TRUE)
                  ELSE trimNodesInCatalog(fnIn, expected, order, runOk)
         IN /\ fnIn' = r.vdb
            /\ fnOut' = [called |-> TRUE, err |-> r.err, expected |-> expected,
                         initiator |-> t.initiator,
                         ran |-> IF runOk THEN t.instructions
                                 ELSE SubSeq(t.instructions, 1, failAt),
                         vdb |-> fnIn]
    /\ UNCHANGED engineVars
    /\ UNCHANGED dispatchVars
    /\ UNCHANGED dataVars

InitTrim ==
    /\ fnIn \in RunningCatalogs
    /\ fnOut = NotTrimmed
    /\ plan = <<>>
    /\ certs = Certs(FALSE, FALSE, FALSE)
    /\ pc = "trim"
    /\ idx = 0
    /\ ctx = EmptyCtx
    /\ ops = <<>>
    /\ results = NoResults
    /\ calls = <<>>
    /\ runErr = NoErr
    /\ pending = {}
    /\ inflight = {}
    /\ poolSize = 0
    /\ dispatched = {}
    /\ prLog = NoProcCall
    /\ fileContent = NoText
    /\ bodies = <<>>
    /\ log = {}
    /\ cmd = NotReturned
    /\ polls = 0

SpecTrim == InitTrim /\ [][TrimNodesInCatalog]_vars

\* a node of the catalog before the call that is not expected and is UP
UnexpectedUpNode ==
    \E h \in DOMAIN fnOut.vdb.HostNodeMap :
        /\ fnOut.vdb.HostNodeMap[h].Name \notin fnOut.expected
        /\ fnOut.vdb.HostNodeMap[h].State = "UP"

NothingTrimmed == fnOut.err /\ fnOut.ran = <<>> /\ fnIn = fnOut.vdb

\* every drop-node that ran names a catalog node that was not UP
OnlyDownNodesDropped ==
    \A i \in 1..Len(fnOut.ran) :
        fnOut.ran[i].op = "drop_node" =>
            \E h \in DOMAIN fnOut.vdb.HostNodeMap :
                /\ fnOut.vdb.HostNodeMap[h].Name = fnOut.ran[i].node
                /\ fnOut.vdb.HostNodeMap[h].State # "UP"

\* C35 as stated: whenever a catalog node outside ExpectedNodeNames is UP,
\* trimNodesInCatalog returns an error, runs nothing and leaves the vdb alone;
\* drop-node is only issued for nodes that are not UP
C35_UpNodeRefused ==
    (pc = "trim" /\ fnOut.called)
        => /\ UnexpectedUpNode => NothingTrimmed
           /\ OnlyDownNodesDropped

\* C35: with ExpectedNodeNames given, an UP catalog node outside of them makes
\* trimNodesInCatalog return an error with nothing run and the vdb unchanged;
\* without ExpectedNodeNames the function returns without error, runs nothing
\* and leaves the vdb unchanged; drop-node is only issued for nodes not UP
C35_UpNodeNeverDropped ==
    (pc = "trim" /\ fnOut.called)
        => /\ (UnexpectedUpNode /\ fnOut.expected # {}) => NothingTrimmed
           /\ fnOut.expected = {} => (~fnOut.err /\ fnOut.ran = <<>> /\ fnIn = fnOut.vdb)
           /\ OnlyDownNodesDropped

\* a trim refused for an UP node, with expected names given
C35_Witness ==
    /\ pc = "trim" /\ fnOut.called
    /\ UnexpectedUpNode /\ fnOut.expected # {}
    /\ fnOut.expected \subseteq genNodeNameToHostMap(fnOut.vdb)
    /\ fnOut.err

\* C40: the initiator of the trim plan is a single host of a kept node, never
\* missing when the plan is built, and its node is UP
C40_InitiatorIsUpHost ==
    (pc = "trim" /\ fnOut.called /\ fnOut.ran # <<>>)
        => /\ Len(fnOut.initiator) = 1
           /\ \A i \in 1..Len(fnOut.ran) : fnOut.ran[i].hosts = fnOut.initiator
           /\ \A i \in 1..Len(fnOut.initiator) :
                LET h == fnOut.initiator[i]
                IN /\ h \in DOMAIN fnOut.vdb.HostNodeMap
                   /\ fnOut.vdb.HostNodeMap[h].Name \in fnOut.expected
                   /\ fnOut.vdb.HostNodeMap[h].State = "UP"

\* ---------------------------------------------------------------------------
\* result classification by status code
\* ---------------------------------------------------------------------------

\* the status codes of the results classified: no response, 2xx, 3xx, 4xx, 5xx
StatusCodes == {0, SuccessCode, 204, 300, UnauthorizedCode, 404, InternalErrorCode, 502, 503, 599}

ClassifiedResults ==
    {MakeResult(h, code, content) :
        h \in Hosts, code \in StatusCodes, content \in {"", "Wrong password"}}

NotClassified ==
    [done |-> FALSE, unauthorized |-> FALSE, internalError |-> FALSE,
     httpRunning |-> FALSE, passing |-> FALSE]

\* the predicates of HostHTTPResult are evaluated on the result
ClassifyResult ==
    /\ pc = "classify" /\ ~fnOut.done
    /\ fnOut' = [done |-> TRUE,
                 unauthorized |-> isUnauthorizedRequest(fnIn),
                 internalError |-> isInternalError(fnIn),
                 httpRunning |-> isHTTPRunning(fnIn),
                 passing |-> isPassing(fnIn)]
    /\ UNCHANGED fnIn
    /\ UNCHANGED engineVars
    /\ UNCHANGED dispatchVars
    /\ UNCHANGED dataVars

InitClassify ==
    /\ fnIn \in ClassifiedResults
    /\ fnOut = NotClassified
    /\ plan = <<>>
    /\ certs = Certs(FALSE, FALSE, FALSE)
    /\ pc = "classify"
    /\ idx = 0
    /\ ctx = EmptyCtx
    /\ ops = <<>>
    /\ results = NoResults
    /\ calls = <<>>
    /\ runErr = NoErr
    /\ pending = {}
    /\ inflight = {}
    /\ poolSize = 0
    /\ dispatched = {}
    /\ prLog = NoProcCall
    /\ fileContent = NoText
    /\ bodies = <<>>
    /\ log = {}
    /\ cmd = NotReturned
    /\ polls = 0

SpecClassify == InitClassify /\ [][ClassifyResult]_vars

\* C36: a result is unauthorized exactly for status code 401, an internal
\* error exactly for the status codes 500 to 599, HTTP running exactly when
\* it is passing, unauthorized or an internal error, and passing exactly when
\* its err is nil
C36_ClassificationByStatusCode ==
    (pc = "classify" /\ fnOut.done)
        => /\ fnOut.unauthorized <=> fnIn.statusCode = 401
           /\ fnOut.internalError <=> (fnIn.statusCode >= 500 /\ fnIn.statusCode <= 599)
           /\ fnOut.httpRunning <=> (fnOut.passing \/ fnOut.unauthorized \/ fnOut.internalError)
           /\ fnOut.passing <=> fnIn.err = NoErr

\* ---------------------------------------------------------------------------
\* masking of the sensitive fields of a request body
\* ---------------------------------------------------------------------------

maskedValue == "******"

SensitiveFields(dbPassword, awsAccessKeyID, awsSecretAccessKey) ==
    [DBPassword |-> dbPassword, AWSAccessKeyID |-> awsAccessKeyID,
     AWSSecretAccessKey |-> awsSecretAccessKey]

\* a masking that leaves the fields that were not set alone
maskSensitiveInfoIfSet(maskedData) ==
    SensitiveFields(IF maskedData.DBPassword = "" THEN "" ELSE maskedValue,
                    IF maskedData.AWSAccessKeyID = "" THEN "" ELSE maskedValue,
                    IF maskedData.AWSSecretAccessKey = "" THEN "" ELSE maskedValue)

\* SensitiveFields.maskSensitiveInfo
maskSensitiveInfo(maskedData) == SensitiveFields(maskedValue, maskedValue, maskedValue)

SecretValues == {"", "secret_a", "secret_b", maskedValue}

NotMasked == [masks |-> 0, original |-> SensitiveFields("", "", ""), once |-> SensitiveFields("", "", "")]

\* maskSensitiveInfo is called on the data, a first and a second time
MaskSensitiveInfo ==
    /\ pc = "mask" /\ fnOut.masks < 2
    /\ fnIn' = maskSensitiveInfo(fnIn)
    /\ fnOut' = [masks |-> fnOut.masks + 1,
                 original |-> IF fnOut.masks = 0 THEN fnIn ELSE fnOut.original,
                 once |-> IF fnOut.masks = 0 THEN maskSensitiveInfo(fnIn) ELSE fnOut.once]
    /\ UNCHANGED engineVars
    /\ UNCHANGED dispatchVars
    /\ UNCHANGED dataVars

InitMask ==
    /\ fnIn \in {SensitiveFields(p, k, s) : p \in SecretValues, k \in SecretValues, s \in SecretValues}
    /\ fnOut = NotMasked
    /\ plan = <<>>
    /\ certs = Certs(FALSE, FALSE, FALSE)
    /\ pc = "mask"
    /\ idx = 0
    /\ ctx = EmptyCtx
    /\ ops = <<>>
    /\ results = NoResults
    /\ calls = <<>>
    /\ runErr = NoErr
    /\ pending = {}
    /\ inflight = {}
    /\ poolSize = 0
    /\ dispatched = {}
    /\ prLog = NoProcCall
    /\ fileContent = NoText
    /\ bodies = <<>>
    /\ log = {}
    /\ cmd = NotReturned
    /\ polls = 0

SpecMask == InitMask /\ [][MaskSensitiveInfo]_vars

\* C37: after maskSensitiveInfo the three sensitive fields hold the same
\* constant mask whatever they held before, and masking twice gives the
\* result of masking once
C37_ConstantMask ==
    (pc = "mask" /\ fnOut.masks >= 1)
        => /\ fnIn.DBPassword = "******"
           /\ fnIn.AWSAccessKeyID = "******"
           /\ fnIn.AWSSecretAccessKey = "******"
           /\ fnOut.masks = 2 => fnIn = fnOut.once

\* masked twice, from data with two different secrets and a field not set
C37_Witness ==
    /\ pc = "mask" /\ fnOut.masks = 2
    /\ fnOut.original.DBPassword = "secret_a"
    /\ fnOut.original.AWSAccessKeyID = ""
    /\ fnOut.original.AWSSecretAccessKey = "secret_b"

\* VRestartNodes returned because a requested node name is not in the catalog
UnknownNodeRequested == pc = "command" /\ fnOut.returned /\ ~fnOut.info.found

\* C38: when a requested node name does not exist in the catalog of the
\* running database, VRestartNodes returns an error, and no plan is produced
\* or run
C38_UnknownNodeIsError ==
    UnknownNodeRequested
        => fnOut.err /\ fnOut.stage = 0 /\ fnOut.plan = <<>> /\ fnOut.trace = <<>>

\* key, cert and CA cert of the engine's options are all three non-empty
AllThreeCertsSet == certs.key /\ certs.cert /\ certs.caCert

\* every request of operation i carries the engine's certs, UseCertsInOptions set
AllRequestsCarryCerts(i) ==
    /\ DOMAIN ops[i].reqs # {}
    /\ \A h \in DOMAIN ops[i].reqs : ops[i].reqs[h]

\* C39: TLS material is applied all-or-nothing. The load step puts the
\* engine's certs into the requests of an operation exactly when key, cert and
\* CA cert are all three set and the operation is not skipped: then every
\* request of the collection carries them, or the load fails because the
\* collection is empty; otherwise no request is modified, and no request ever
\* carries certs unless all three are set and its operation is not skipped.
C39_CertsAllOrNothing ==
    [][/\ pc = "loadCerts" =>
            LET ret == calls'[Len(calls')].ret
            IN IF AllThreeCertsSet /\ ~ops[idx].skipExecute
               THEN IF DOMAIN ops[idx].reqs = {}
                    THEN ret # NoErr /\ ops' = ops /\ runErr' # NoErr /\ pc' = "done"
                    ELSE /\ ret = NoErr
                         /\ ops'[idx].reqs = [h \in DOMAIN ops[idx].reqs |-> TRUE]
                         /\ \A i \in DOMAIN ops : i # idx => ops'[i] = ops[i]
               ELSE ret = NoErr /\ ops' = ops
       /\ \A i \in DOMAIN ops' : \A h \in DOMAIN ops'[i].reqs :
            ops'[i].reqs[h] => AllThreeCertsSet /\ ~ops'[i].skipExecute
      ]_vars

\* an operation that was not skipped goes on to execute with the certs in
\* every one of its requests
C39_Witness ==
    pc = "execute" /\ AllThreeCertsSet /\ ~ops[idx].skipExecute /\ AllRequestsCarryCerts(idx)

====
